---- MODULE Spec2Model ----
(***************************************************************************)
(* Identity lifecycle (registration, admin approval, OTP login) and the    *)
(* listing approval workflow of the AI Agent Hub backend.                  *)
(*                                                                         *)
(* Every action is one request handler run to completion against the       *)
(* database.  `result` holds the outcome of the last handler: the          *)
(* operation, its request arguments, the row it addressed, the HTTP detail *)
(* ("ok" on success) and the addresses the handler sent mail to.          *)
(* `spent` is a history variable, not program state: the accounts whose    *)
(* latest one-time code has been used up by a successful verification.     *)
(* `served` counts the requests handled, in the one specification that     *)
(* bounds the length of a behaviour; `inflight` holds the requests that    *)
(* have read the database and not yet finished, in the specifications      *)
(* that let requests overlap; `use_ses` is settings.USE_SES.               *)
(***************************************************************************)
EXTENDS Integers, Sequences, FiniteSets, TLC

VARIABLES users, next_user_id, agents, next_agent_id,
          ratings, next_rating_id, reviews, next_review_id,
          views, clicks, sessions, inflight,
          spent, now, result, served, use_ses

vars == <<users, next_user_id, agents, next_agent_id,
          ratings, next_rating_id, reviews, next_review_id,
          views, clicks, sessions, inflight,
          spent, now, result, served, use_ses>>

(* Tables agent_ratings, agent_reviews, agent_views, agent_clicks and
   agent_sessions, and the requests between their read and their commit. *)
engagement == <<ratings, next_rating_id, reviews, next_review_id,
                views, clicks, sessions, inflight>>

(* ------------------------------ bounds --------------------------------- *)
MaxUsers == 2
MaxAgents == 1
MaxTime == 1
MaxTimeOtp == 6
MaxRatings == 3
MaxReviews == 1
MaxHelpful == 1
MaxEvents == 1
MaxRequests == 5
MaxInflight == 2
MaxViewTicks == 2

(* --------------------------- program constants ------------------------- *)
OTP_EXPIRE_MINUTES == 5
MIN_RATING == 1
MAX_RATING == 5
MIN_REVIEW_LENGTH == 10
VIEW_WINDOW_MINUTES == 60

PENDING == "pending"
APPROVED == "approved"
REJECTED == "rejected"

AgentCategory == {"business", "healthcare", "finance", "supply_chain",
                  "insurance", "hr", "operations", "engineering"}

(* Column values of a row that is NULL in the database. *)
None == "None"
NoTime == 0 - 1
NoId == 0

(* ------------------------------ inputs --------------------------------- *)
Emails == {"admin@agenthub.com", "a@x.com"}
Usernames == {"admin", "alice"}
Codes == {"111111", "222222"}
CategoryInputs == {"business", "astrology"}
UserIds == 1..MaxUsers
AgentIds == 1..MaxAgents
Passwords == {"pw1", "pw2"}
RegisterPasswords == {"pw1"}
RatingInputs == {1, 2, 6}
CategoryFilters == {None, "business"}
StatusFilters == {None, APPROVED, PENDING, REJECTED}
ClickTypeInputs == {"new_tab", "double_click"}
DurationInputs == {0 - 1, 2}
AgentIdInputs == AgentIds
ReviewIdInputs == 1..MaxReviews
CurrentPasswordInputs == Passwords \cup {"admin123"}

(* Review texts, as the characters of the string. *)
TooShort == <<"t", "o", "o", " ", "s", "h", "o", "r", "t">>
Padded == <<" ", " ">> \o TooShort \o <<" ">>
LongEnough == <<"W", "o", "r", "k", "s", " ", "g", "r", "e", "a", "t">>
ReviewTexts == {Padded, LongEnough}

(* ClickType *)
ClickType == {"modal_open", "new_tab", "external_link"}

(* The values generate_otp() can return. *)
generate_otp == Codes

Range(s) == {s[i] : i \in DOMAIN s}

(* What get_agent_rating_stats and rate_agent return: the mean in hundredths,
   the row counts and the count per star value. *)
NoStats ==
    [average_rating |-> 0, rating_count |-> 0, review_count |-> 0,
     rating_distribution |-> [i \in MIN_RATING..MAX_RATING |-> 0]]

(* The outcome of a handler: `detail` is the HTTPException detail, or "ok";
   `reply` is the message returned to the caller, "ok" standing for the
   handler's fixed success message; `mails` are the addresses the handler
   called the email service for and `failed` those whose send returned
   status "error"; `listed` are the listings a list route returned. *)
Res(op, args, target, detail, mails) ==
    [op |-> op, args |-> args, target |-> target, detail |-> detail,
     mails |-> mails, reply |-> detail, failed |-> {}, stats |-> NoStats,
     listed |-> {}]

(* _send_via_ses catches every exception and returns status "error"; without
   SES the message is printed and the status is "success". *)
send_failures(mails) == IF use_ses THEN SUBSET mails ELSE {{}}

(* User.is_admin: "admin" in (self.roles or []) *)
is_admin(u) == "admin" \in Range(u.roles)

(* Addresses of the accounts selected by
   filter(User.roles.contains(["admin"]), User.is_active == True) *)
ActiveAdminEmails(us) ==
    {us[i].email : i \in {j \in DOMAIN us : is_admin(us[j]) /\ us[j].is_active}}

(* The caller a protected handler receives from get_current_user /
   get_current_admin: an existing, active account (holding the admin role);
   which accounts hold a valid bearer token is not tracked. *)
get_current_user(c) ==
    c \in DOMAIN users /\ users[c].is_active
get_current_admin(c) == get_current_user(c) /\ is_admin(users[c])

(* Rows holding a foreign key to users.id = u. *)
(* A database that enforces no foreign key on users.id. *)
C29_ReferencedUser_never(u) == FALSE

ReferencedUser(u) ==
    \/ \E i \in DOMAIN users : users[i].approved_by = u
    \/ \E a \in DOMAIN agents : agents[a].author_id = u \/ agents[a].approved_by = u
    \/ \E r \in DOMAIN ratings : ratings[r].user_id = u
    \/ \E r \in DOMAIN reviews : reviews[r].user_id = u
    \/ \E v \in views : v.user_id = u
    \/ \E i \in DOMAIN clicks : clicks[i].user_id = u
    \/ \E i \in DOMAIN sessions : sessions[i].user_id = u

(* get_password_hash and verify_password: a one-way hash of the password and
   the test that a hash was made from a password. *)
get_password_hash(password) == <<"hash", password>>
verify_password(password, password_hash) ==
    password_hash = get_password_hash(password)

(* ------------------------------- state --------------------------------- *)
(* Where views are counted the clock advances by one view window, so that
   a fetch falls on the instant, on the edge of the window and past it. *)
ViewTick == VIEW_WINDOW_MINUTES

Timestamps == 0..(MaxTime + MaxTimeOtp + OTP_EXPIRE_MINUTES + MaxViewTicks * ViewTick)

(* The accounts create_admin.py adds to the seeded administrator. *)
SampleUsernames == {"john_doe", "jane_smith", "pending_user"}
SampleEmails == {"john@example.com", "jane@example.com", "pending@example.com"}
SampleUserIds == 1..4

(* A row of table users. *)
UserRows ==
    [email : Emails \cup SampleEmails, username : Usernames \cup SampleUsernames,
     password_hash : {get_password_hash(p) :
                         p \in Passwords \cup {"admin123", "password123"}},
     roles : {<<"user">>, <<"user", "admin">>, <<"admin", "user">>},
     is_active : BOOLEAN,
     otp_code : Codes \cup {None}, otp_expires_at : Timestamps \cup {NoTime},
     approved_by : UserIds \cup {NoId}, approved_at : Timestamps \cup {NoTime}]

(* A row of table agents. *)
AgentRows ==
    [category : AgentCategory, status : {PENDING, APPROVED, REJECTED},
     author_id : UserIds \cup SampleUserIds,
     approved_by : UserIds \cup {NoId}, approved_at : Timestamps \cup {NoTime}]

(* Rows of tables agent_ratings, agent_reviews, agent_views, agent_clicks and
   agent_sessions. *)
RatingRows ==
    [agent_id : AgentIds, user_id : UserIds \cup SampleUserIds,
     rating : MIN_RATING..MAX_RATING]

ReviewRows ==
    [agent_id : AgentIds, user_id : UserIds \cup SampleUserIds,
     rating : MIN_RATING..MAX_RATING, review_text : ReviewTexts,
     is_helpful_count : 0..MaxHelpful]

ViewRows ==
    [agent_id : AgentIds, user_id : UserIds \cup SampleUserIds,
     viewed_at : Timestamps]

ClickRows ==
    [agent_id : AgentIds, user_id : UserIds \cup SampleUserIds,
     click_type : ClickType]

SessionRows ==
    [agent_id : AgentIds, user_id : UserIds \cup SampleUserIds,
     session_end : Timestamps, duration_seconds : Nat]

TypeOK ==
    /\ DOMAIN users \subseteq UserIds \cup SampleUserIds
    /\ \A u \in DOMAIN users : users[u] \in UserRows
    /\ next_user_id \in 2..(MaxUsers + 1) \cup {5}
    /\ DOMAIN agents \subseteq AgentIds
    /\ \A a \in DOMAIN agents : agents[a] \in AgentRows
    /\ next_agent_id \in 1..(MaxAgents + 1)
    /\ \A r \in DOMAIN ratings : ratings[r] \in RatingRows
    /\ next_rating_id \in 1..(MaxRatings + 1)
    /\ \A r \in DOMAIN reviews : reviews[r] \in ReviewRows
    /\ next_review_id \in 1..(MaxReviews + 1)
    /\ views \subseteq ViewRows
    /\ \A i \in DOMAIN clicks : clicks[i] \in ClickRows
    /\ \A i \in DOMAIN sessions : sessions[i] \in SessionRows
    /\ spent \subseteq DOMAIN users
    /\ now \in Timestamps
    /\ served \in 0..MaxRequests
    /\ use_ses \in BOOLEAN

(* ------------------------------- Init ---------------------------------- *)
(* create_initial_data: the seeded administrator. *)
AdminUser ==
    [email |-> "admin@agenthub.com", username |-> "admin",
     password_hash |-> get_password_hash("admin123"),
     roles |-> <<"user", "admin">>, is_active |-> TRUE,
     otp_code |-> None, otp_expires_at |-> NoTime,
     approved_by |-> NoId, approved_at |-> 0]

(* The tables other than users and agents are empty at startup. *)
NoEngagement ==
    /\ ratings = <<>>
    /\ next_rating_id = 1
    /\ reviews = <<>>
    /\ next_review_id = 1
    /\ views = {}
    /\ clicks = <<>>
    /\ sessions = <<>>
    /\ inflight = {}

Startup ==
    /\ spent = {}
    /\ now = 0
    /\ served = 0
    /\ result = [op |-> "startup", args |-> <<>>, target |-> NoId,
                 detail |-> "ok", mails |-> {}, reply |-> "ok", failed |-> {},
                 stats |-> NoStats, listed |-> {}]

Init ==
    /\ users = (1 :> AdminUser)
    /\ next_user_id = 2
    /\ agents = <<>>
    /\ next_agent_id = 1
    /\ NoEngagement
    /\ Startup
    /\ use_ses = FALSE

(* The same with settings.USE_SES set. *)
InitSes ==
    /\ users = (1 :> AdminUser)
    /\ next_user_id = 2
    /\ agents = <<>>
    /\ next_agent_id = 1
    /\ NoEngagement
    /\ Startup
    /\ use_ses = TRUE

(* create_admin.py: the administrator, the sample accounts and the first
   MaxAgents of the five sample listings, their authors taken in turn from
   the active sample accounts. *)
SampleUser(email, username, is_active) ==
    [email |-> email, username |-> username,
     password_hash |-> get_password_hash("password123"),
     roles |-> <<"user">>, is_active |-> is_active,
     otp_code |-> None, otp_expires_at |-> NoTime,
     approved_by |-> IF is_active THEN 1 ELSE NoId,
     approved_at |-> IF is_active THEN 0 ELSE NoTime]

SampleCategories == <<"business", "healthcare", "finance", "supply_chain", "hr">>

SampleAgent(i) ==
    [category |-> SampleCategories[((i - 1) % 5) + 1],
     status |-> IF i = 4 THEN PENDING ELSE APPROVED,
     author_id |-> 2 + ((i - 1) % 2),
     approved_by |-> NoId,
     approved_at |-> IF i = 4 THEN NoTime ELSE 0]

InitSample ==
    /\ users = (1 :> AdminUser)
            @@ (2 :> SampleUser("john@example.com", "john_doe", TRUE))
            @@ (3 :> SampleUser("jane@example.com", "jane_smith", TRUE))
            @@ (4 :> SampleUser("pending@example.com", "pending_user", FALSE))
    /\ next_user_id = 5
    /\ agents = [i \in AgentIds |-> SampleAgent(i)]
    /\ next_agent_id = MaxAgents + 1
    /\ NoEngagement
    /\ Startup
    /\ use_ses = FALSE

(* ------------------------- identity lifecycle -------------------------- *)
UserByUsername(username) ==
    {i \in DOMAIN users : users[i].username = username}

(* query(User).filter(User.email == email).first() is a row *)
email_registered(email) == \E i \in DOMAIN users : users[i].email = email

(* Mutation of username_taken: the username lookup is skipped. *)
C5_username_never_taken(username) == FALSE

(* query(User).filter(User.username == username).first() is a row *)
username_taken(username) == \E i \in DOMAIN users : users[i].username = username

(* User(email, username, password_hash, roles=["user"], is_active=False) *)
new_user(email, username, password) ==
    [email |-> email, username |-> username,
     password_hash |-> get_password_hash(password),
     roles |-> <<"user">>, is_active |-> FALSE,
     otp_code |-> None, otp_expires_at |-> NoTime,
     approved_by |-> NoId, approved_at |-> NoTime]

register_user(email, username, password) ==
    /\ UNCHANGED <<agents, next_agent_id, spent, now, engagement, use_ses>>
    /\ IF email_registered(email)
       THEN /\ result' = Res("register_user", <<email, username>>, NoId,
                             "Email already registered", {})
            /\ UNCHANGED <<users, next_user_id>>
       ELSE IF username_taken(username)
       THEN /\ result' = Res("register_user", <<email, username>>, NoId,
                             "Username already taken", {})
            /\ UNCHANGED <<users, next_user_id>>
       ELSE /\ next_user_id <= MaxUsers
            /\ users' = users @@ (next_user_id :> new_user(email, username, password))
            /\ next_user_id' = next_user_id + 1
            /\ \E failed \in send_failures(ActiveAdminEmails(users')) :
                 result' = [Res("register_user", <<email, username>>, next_user_id,
                                "ok", ActiveAdminEmails(users'))
                            EXCEPT !.failed = failed]

(* Mutation of not_activated: the activation gate is skipped. *)
C4_not_activated_unchecked(user) == FALSE

(* if not user.is_active *)
not_activated(user) == ~user.is_active

(* The message of the dict send_otp_email returns, which initiate_login
   returns to its caller: the console branch's, or _send_via_ses's for a
   send that succeeded or raised. *)
send_otp_email(sent) ==
    IF ~use_ses THEN "OTP sent successfully"
    ELSE IF sent THEN "Email sent successfully"
    ELSE "Failed to send email"

(* user.otp_code = otp_code; user.otp_expires_at = utcnow() + OTP_EXPIRE_MINUTES *)
(* A store that leaves a code already on file in place. *)
C27_store_otp_keeps_old(user, otp_code) ==
    IF user.otp_code # None THEN user
    ELSE [user EXCEPT !.otp_code = otp_code,
                      !.otp_expires_at = now + OTP_EXPIRE_MINUTES]

store_otp(user, otp_code) ==
    [user EXCEPT !.otp_code = otp_code,
                 !.otp_expires_at = now + OTP_EXPIRE_MINUTES]

initiate_login(username) ==
    /\ UNCHANGED <<next_user_id, agents, next_agent_id, now, engagement, use_ses>>
    /\ IF UserByUsername(username) = {}
       THEN /\ result' = Res("initiate_login", <<username>>, NoId,
                             "Invalid username", {})
            /\ UNCHANGED <<users, spent>>
       ELSE LET u == CHOOSE i \in UserByUsername(username) : TRUE IN
            IF not_activated(users[u])
            THEN /\ result' = Res("initiate_login", <<username>>, u,
                                  "Account not activated", {})
                 /\ UNCHANGED <<users, spent>>
            ELSE \E otp_code \in generate_otp :
                 /\ users' = [users EXCEPT ![u] = store_otp(users[u], otp_code)]
                 /\ spent' = spent \ {u}
                 /\ \E failed \in send_failures({users[u].email}) :
                      result' = [Res("initiate_login", <<username>>, u, "ok",
                                     {users[u].email})
                                 EXCEPT !.failed = failed,
                                        !.reply = send_otp_email(failed = {})]

(* Mutation of check_otp: the code is compared before the expiry. *)
C9_check_otp_code_first(user, otp_code) ==
    IF user.otp_code = None THEN "OTP has expired"
    ELSE IF user.otp_code # otp_code THEN "Invalid OTP code"
    ELSE IF user.otp_expires_at = NoTime THEN "TypeError"
    ELSE IF user.otp_expires_at < now THEN "OTP has expired"
    ELSE "ok"

(* The checks of verify_otp_and_login in their order; comparing an expiry
   that is NULL with the clock raises TypeError. *)
check_otp(user, otp_code) ==
    IF user.otp_code = None THEN "OTP has expired"
    ELSE IF user.otp_expires_at = NoTime THEN "TypeError"
    ELSE IF user.otp_expires_at < now THEN "OTP has expired"
    ELSE IF user.otp_code # otp_code THEN "Invalid OTP code"
    ELSE "ok"

(* Mutations of clear_otp: nothing is cleared; only the code is cleared. *)
C2_clear_otp_forgotten(user) == user

C10_clear_otp_code_only(user) == [user EXCEPT !.otp_code = None]

(* user.otp_code = None; user.otp_expires_at = None *)
clear_otp(user) == [user EXCEPT !.otp_code = None, !.otp_expires_at = NoTime]

(* Mutation of verify_otp_and_login: the code is cleared on every attempt. *)
C8_verify_clears_on_failure(username, otp_code) ==
    /\ UNCHANGED <<next_user_id, agents, next_agent_id, now, engagement, use_ses>>
    /\ IF UserByUsername(username) = {}
       THEN /\ result' = Res("verify_otp_and_login", <<username, otp_code>>, NoId,
                             "Invalid username", {})
            /\ UNCHANGED <<users, spent>>
       ELSE LET u == CHOOSE i \in UserByUsername(username) : TRUE
                detail == check_otp(users[u], otp_code)
            IN  /\ users' = [users EXCEPT ![u] = clear_otp(users[u])]
                /\ spent' = IF detail = "ok" THEN spent \cup {u} ELSE spent
                /\ result' = Res("verify_otp_and_login", <<username, otp_code>>, u,
                                 detail, {})

verify_otp_and_login(username, otp_code) ==
    /\ UNCHANGED <<next_user_id, agents, next_agent_id, now, engagement, use_ses>>
    /\ IF UserByUsername(username) = {}
       THEN /\ result' = Res("verify_otp_and_login", <<username, otp_code>>, NoId,
                             "Invalid username", {})
            /\ UNCHANGED <<users, spent>>
       ELSE LET u == CHOOSE i \in UserByUsername(username) : TRUE
                detail == check_otp(users[u], otp_code)
            IN  IF detail # "ok"
                THEN /\ result' = Res("verify_otp_and_login", <<username, otp_code>>,
                                      u, detail, {})
                     /\ UNCHANGED <<users, spent>>
                ELSE /\ users' = [users EXCEPT ![u] = clear_otp(users[u])]
                     /\ spent' = spent \cup {u}
                     /\ result' = Res("verify_otp_and_login", <<username, otp_code>>,
                                      u, "ok", {})

(* ------------------------- admin: user management ----------------------- *)
(* Mutations of already_active: an earlier approval also blocks; nothing
   blocks. *)
C6_already_active_or_approved(user) == user.is_active \/ user.approved_at # NoTime

C7_already_active_unchecked(user) == FALSE

(* if user.is_active *)
already_active(user) == user.is_active

approve_user(current_admin, user_id) ==
    /\ UNCHANGED <<next_user_id, agents, next_agent_id, spent, now, engagement, use_ses>>
    /\ IF user_id \notin DOMAIN users
       THEN /\ result' = Res("approve_user", <<current_admin, user_id>>, NoId,
                             "User not found", {})
            /\ UNCHANGED users
       ELSE IF already_active(users[user_id])
       THEN /\ result' = Res("approve_user", <<current_admin, user_id>>, user_id,
                             "User is already active", {})
            /\ UNCHANGED users
       ELSE /\ users' = [users EXCEPT
                   ![user_id].is_active = TRUE,
                   ![user_id].approved_by = current_admin,
                   ![user_id].approved_at = now]
            /\ \E failed \in send_failures({users[user_id].email}) :
                 result' = [Res("approve_user", <<current_admin, user_id>>, user_id,
                                "ok", {users[user_id].email})
                            EXCEPT !.failed = failed]

(* Mutation of deactivate_user: the flag is written before the checks on
   the target. *)
C11_deactivate_user_writes_first(current_admin, user_id) ==
    /\ UNCHANGED <<next_user_id, agents, next_agent_id, spent, now, engagement, use_ses>>
    /\ IF user_id \notin DOMAIN users
       THEN /\ result' = Res("deactivate_user", <<current_admin, user_id>>, NoId,
                             "User not found", {})
            /\ UNCHANGED users
       ELSE /\ users' = [users EXCEPT ![user_id].is_active = FALSE]
            /\ result' = Res("deactivate_user", <<current_admin, user_id>>, user_id,
                             IF user_id = current_admin
                             THEN "Cannot deactivate your own account"
                             ELSE IF ~users[user_id].is_active
                             THEN "User is already inactive"
                             ELSE "ok", {})

(* deactivate_user that also withdraws the stored code. *)
C14_deactivate_user_clears_otp(current_admin, user_id) ==
    /\ UNCHANGED <<next_user_id, agents, next_agent_id, spent, now, engagement, use_ses>>
    /\ IF user_id \notin DOMAIN users
       THEN /\ result' = Res("deactivate_user", <<current_admin, user_id>>, NoId,
                             "User not found", {})
            /\ UNCHANGED users
       ELSE IF user_id = current_admin
       THEN /\ result' = Res("deactivate_user", <<current_admin, user_id>>, user_id,
                             "Cannot deactivate your own account", {})
            /\ UNCHANGED users
       ELSE IF ~users[user_id].is_active
       THEN /\ result' = Res("deactivate_user", <<current_admin, user_id>>, user_id,
                             "User is already inactive", {})
            /\ UNCHANGED users
       ELSE /\ users' = [users EXCEPT ![user_id].is_active = FALSE,
                                      ![user_id].otp_code = None,
                                      ![user_id].otp_expires_at = NoTime]
            /\ result' = Res("deactivate_user", <<current_admin, user_id>>, user_id,
                             "ok", {})

deactivate_user(current_admin, user_id) ==
    /\ UNCHANGED <<next_user_id, agents, next_agent_id, spent, now, engagement, use_ses>>
    /\ IF user_id \notin DOMAIN users
       THEN /\ result' = Res("deactivate_user", <<current_admin, user_id>>, NoId,
                             "User not found", {})
            /\ UNCHANGED users
       ELSE IF user_id = current_admin
       THEN /\ result' = Res("deactivate_user", <<current_admin, user_id>>, user_id,
                             "Cannot deactivate your own account", {})
            /\ UNCHANGED users
       ELSE IF ~users[user_id].is_active
       THEN /\ result' = Res("deactivate_user", <<current_admin, user_id>>, user_id,
                             "User is already inactive", {})
            /\ UNCHANGED users
       ELSE /\ users' = [users EXCEPT ![user_id].is_active = FALSE]
            /\ result' = Res("deactivate_user", <<current_admin, user_id>>, user_id,
                             "ok", {})

(* db.delete(user); db.commit(): the commit fails while a row still holds a
   foreign key to the account. *)
(* reject_user without its test of the active flag. *)
C13_reject_user_active_unchecked(current_admin, user_id) ==
    /\ UNCHANGED <<next_user_id, agents, next_agent_id, now, engagement, use_ses>>
    /\ IF user_id \notin DOMAIN users
       THEN /\ result' = Res("reject_user", <<current_admin, user_id>>, NoId,
                             "User not found", {})
            /\ UNCHANGED <<users, spent>>
       ELSE IF user_id = current_admin
       THEN /\ result' = Res("reject_user", <<current_admin, user_id>>, user_id,
                             "Cannot reject your own account", {})
            /\ UNCHANGED <<users, spent>>
       ELSE IF ReferencedUser(user_id)
       THEN /\ result' = Res("reject_user", <<current_admin, user_id>>, user_id,
                             "IntegrityError", {})
            /\ UNCHANGED <<users, spent>>
       ELSE /\ users' = [i \in DOMAIN users \ {user_id} |-> users[i]]
            /\ spent' = spent \ {user_id}
            /\ result' = Res("reject_user", <<current_admin, user_id>>, user_id,
                             "ok", {})

reject_user(current_admin, user_id) ==
    /\ UNCHANGED <<next_user_id, agents, next_agent_id, now, engagement, use_ses>>
    /\ IF user_id \notin DOMAIN users
       THEN /\ result' = Res("reject_user", <<current_admin, user_id>>, NoId,
                             "User not found", {})
            /\ UNCHANGED <<users, spent>>
       ELSE IF users[user_id].is_active
       THEN /\ result' = Res("reject_user", <<current_admin, user_id>>, user_id,
                             "Cannot reject an active user", {})
            /\ UNCHANGED <<users, spent>>
       ELSE IF user_id = current_admin
       THEN /\ result' = Res("reject_user", <<current_admin, user_id>>, user_id,
                             "Cannot reject your own account", {})
            /\ UNCHANGED <<users, spent>>
       ELSE IF ReferencedUser(user_id)
       THEN /\ result' = Res("reject_user", <<current_admin, user_id>>, user_id,
                             "IntegrityError", {})
            /\ UNCHANGED <<users, spent>>
       ELSE /\ users' = [i \in DOMAIN users \ {user_id} |-> users[i]]
            /\ spent' = spent \ {user_id}
            /\ result' = Res("reject_user", <<current_admin, user_id>>, user_id,
                             "ok", {})

(* The orders list(set(roles + ["admin"])) can come out in. *)
(* A role list that drops what the account already held. *)
C15_RoleOrders_admin_only(roles) ==
    {<<"admin">>}

RoleOrders(roles) ==
    LET S == Range(roles) \cup {"admin"} IN
    {r \in [1..Cardinality(S) -> S] : Range(r) = S}

make_user_admin(current_admin, user_id) ==
    /\ UNCHANGED <<next_user_id, agents, next_agent_id, spent, now, engagement, use_ses>>
    /\ IF user_id \notin DOMAIN users
       THEN /\ result' = Res("make_user_admin", <<current_admin, user_id>>, NoId,
                             "User not found", {})
            /\ UNCHANGED users
       ELSE IF ~users[user_id].is_active
       THEN /\ result' = Res("make_user_admin", <<current_admin, user_id>>, user_id,
                             "Cannot grant admin role to inactive user", {})
            /\ UNCHANGED users
       ELSE IF "admin" \in Range(users[user_id].roles)
       THEN /\ result' = Res("make_user_admin", <<current_admin, user_id>>, user_id,
                             "User is already an admin", {})
            /\ UNCHANGED users
       ELSE \E r \in RoleOrders(users[user_id].roles) :
            /\ users' = [users EXCEPT ![user_id].roles = r]
            /\ result' = Res("make_user_admin", <<current_admin, user_id>>, user_id,
                             "ok", {})

(* ----------------------- listing approval workflow ---------------------- *)
(* Mutation of already_reviewed: the pending check is skipped. *)
C3_already_reviewed_unchecked(agent) == FALSE

(* if agent.status != AgentStatus.PENDING.value *)
already_reviewed(agent) == agent.status # PENDING

create_agent(current_user, category) ==
    /\ UNCHANGED <<users, next_user_id, spent, now, engagement, use_ses>>
    /\ IF category \notin AgentCategory
       THEN /\ result' = Res("create_agent", <<current_user, category>>, NoId, "Invalid category", {})
            /\ UNCHANGED <<agents, next_agent_id>>
       ELSE /\ next_agent_id <= MaxAgents
            /\ agents' = agents @@ (next_agent_id :>
                   [category |-> category, status |-> PENDING,
                    author_id |-> current_user,
                    approved_by |-> NoId, approved_at |-> NoTime])
            /\ next_agent_id' = next_agent_id + 1
            /\ \E failed \in send_failures(ActiveAdminEmails(users)) :
                 result' = [Res("create_agent", <<current_user, category>>,
                                next_agent_id, "ok", ActiveAdminEmails(users))
                            EXCEPT !.failed = failed]

approve_reject_agent(current_admin, agent_id, approve) ==
    /\ UNCHANGED <<users, next_user_id, next_agent_id, spent, now, engagement, use_ses>>
    /\ IF agent_id \notin DOMAIN agents
       THEN /\ result' = Res("approve_reject_agent", <<current_admin, agent_id, approve>>, NoId, "Agent not found", {})
            /\ UNCHANGED agents
       ELSE IF already_reviewed(agents[agent_id])
       THEN /\ result' = Res("approve_reject_agent", <<current_admin, agent_id, approve>>, agent_id,
                             "Agent has already been reviewed", {})
            /\ UNCHANGED agents
       ELSE /\ agents' = [agents EXCEPT
                   ![agent_id].status = IF approve THEN APPROVED ELSE REJECTED,
                   ![agent_id].approved_by = current_admin,
                   ![agent_id].approved_at = now]
            /\ \E failed \in send_failures({users[agents[agent_id].author_id].email}) :
                 result' = [Res("approve_reject_agent",
                                <<current_admin, agent_id, approve>>, agent_id, "ok",
                                {users[agents[agent_id].author_id].email})
                            EXCEPT !.failed = failed]

(* ------------------------------ passwords ------------------------------- *)
change_password(user_id, current_password, new_password) ==
    /\ UNCHANGED <<next_user_id, agents, next_agent_id, spent, now, engagement, use_ses>>
    /\ IF user_id \notin DOMAIN users
       THEN /\ result' = Res("change_password", <<user_id>>, NoId,
                             "User not found", {})
            /\ UNCHANGED users
       ELSE IF ~verify_password(current_password, users[user_id].password_hash)
       THEN /\ result' = Res("change_password", <<user_id>>, user_id,
                             "Current password is incorrect", {})
            /\ UNCHANGED users
       ELSE /\ users' = [users EXCEPT
                   ![user_id].password_hash = get_password_hash(new_password)]
            /\ result' = Res("change_password", <<user_id>>, user_id, "ok", {})

(* --------------------------- views and events --------------------------- *)
(* A view of the pair no older than an hour. *)
(* A window test that lets a view exactly one window old pass as old. *)
C22_recent_view_strict(agent_id, user_id) ==
    \E v \in views :
        /\ v.agent_id = agent_id
        /\ v.user_id = user_id
        /\ v.viewed_at > now - VIEW_WINDOW_MINUTES

recent_view(agent_id, user_id) ==
    \E v \in views :
        /\ v.agent_id = agent_id
        /\ v.user_id = user_id
        /\ v.viewed_at >= now - VIEW_WINDOW_MINUTES

(* get_agent that does not exempt the author of the listing. *)
C21_get_agent_author_refused(current_user, agent_id) ==
    /\ UNCHANGED <<users, next_user_id, agents, next_agent_id, spent, now, use_ses>>
    /\ UNCHANGED <<ratings, next_rating_id, reviews, next_review_id,
                   clicks, sessions, inflight>>
    /\ IF agent_id \notin DOMAIN agents
       THEN /\ result' = Res("get_agent", <<current_user, agent_id>>, NoId,
                             "Agent not found", {})
            /\ UNCHANGED views
       ELSE IF /\ ~is_admin(users[current_user])
               /\ agents[agent_id].status # APPROVED
       THEN /\ result' = Res("get_agent", <<current_user, agent_id>>, agent_id,
                             "Not authorized to view this agent", {})
            /\ UNCHANGED views
       ELSE /\ views' =
                 IF agents[agent_id].status = APPROVED
                    /\ ~recent_view(agent_id, current_user)
                 THEN views \cup {[agent_id |-> agent_id, user_id |-> current_user,
                                   viewed_at |-> now]}
                 ELSE views
            /\ result' = Res("get_agent", <<current_user, agent_id>>, agent_id,
                             "ok", {})

get_agent(current_user, agent_id) ==
    /\ UNCHANGED <<users, next_user_id, agents, next_agent_id, spent, now, use_ses>>
    /\ UNCHANGED <<ratings, next_rating_id, reviews, next_review_id,
                   clicks, sessions, inflight>>
    /\ IF agent_id \notin DOMAIN agents
       THEN /\ result' = Res("get_agent", <<current_user, agent_id>>, NoId,
                             "Agent not found", {})
            /\ UNCHANGED views
       ELSE IF /\ ~is_admin(users[current_user])
               /\ agents[agent_id].status # APPROVED
               /\ agents[agent_id].author_id # current_user
       THEN /\ result' = Res("get_agent", <<current_user, agent_id>>, agent_id,
                             "Not authorized to view this agent", {})
            /\ UNCHANGED views
       ELSE /\ views' =
                 IF agents[agent_id].status = APPROVED
                    /\ ~recent_view(agent_id, current_user)
                 THEN views \cup {[agent_id |-> agent_id, user_id |-> current_user,
                                   viewed_at |-> now]}
                 ELSE views
            /\ result' = Res("get_agent", <<current_user, agent_id>>, agent_id,
                             "ok", {})

track_agent_click(current_user, agent_id, click_type) ==
    /\ UNCHANGED <<users, next_user_id, agents, next_agent_id, spent, now, use_ses>>
    /\ UNCHANGED <<ratings, next_rating_id, reviews, next_review_id,
                   views, sessions, inflight>>
    /\ IF agent_id \notin DOMAIN agents
       THEN /\ result' = Res("track_agent_click", <<current_user, agent_id, click_type>>,
                             NoId, "Agent not found", {})
            /\ UNCHANGED clicks
       ELSE IF click_type \notin ClickType
       THEN /\ result' = Res("track_agent_click", <<current_user, agent_id, click_type>>,
                             agent_id, "Invalid click type", {})
            /\ UNCHANGED clicks
       ELSE /\ Len(clicks) < MaxEvents
            /\ clicks' = Append(clicks, [agent_id |-> agent_id,
                                         user_id |-> current_user,
                                         click_type |-> click_type])
            /\ result' = Res("track_agent_click", <<current_user, agent_id, click_type>>,
                             agent_id, "ok", {})

track_agent_session(current_user, agent_id, duration_seconds) ==
    /\ UNCHANGED <<users, next_user_id, agents, next_agent_id, spent, now, use_ses>>
    /\ UNCHANGED <<ratings, next_rating_id, reviews, next_review_id,
                   views, clicks, inflight>>
    /\ IF agent_id \notin DOMAIN agents
       THEN /\ result' = Res("track_agent_session",
                             <<current_user, agent_id, duration_seconds>>,
                             NoId, "Agent not found", {})
            /\ UNCHANGED sessions
       ELSE IF duration_seconds < 0
       THEN /\ result' = Res("track_agent_session",
                             <<current_user, agent_id, duration_seconds>>,
                             agent_id, "Duration must be a positive number", {})
            /\ UNCHANGED sessions
       ELSE /\ Len(sessions) < MaxEvents
            /\ sessions' = Append(sessions, [agent_id |-> agent_id,
                                             user_id |-> current_user,
                                             session_end |-> now,
                                             duration_seconds |-> duration_seconds])
            /\ result' = Res("track_agent_session",
                             <<current_user, agent_id, duration_seconds>>,
                             agent_id, "ok", {})

(* -------------------------- ratings and reviews ------------------------- *)
(* filter(T.agent_id == agent_id) and
   filter(T.agent_id == agent_id, T.user_id == user_id) over a table. *)
OfAgent(table, agent_id) ==
    {r \in DOMAIN table : table[r].agent_id = agent_id}

OfPair(table, agent_id, user_id) ==
    {r \in DOMAIN table : table[r].agent_id = agent_id /\ table[r].user_id = user_id}

(* What .first() can return: no row, or one of the rows selected. *)
first(rows) == IF rows = {} THEN {NoId} ELSE rows

RECURSIVE SumRatings(_, _)
SumRatings(table, rows) ==
    IF rows = {} THEN 0
    ELSE LET r == CHOOSE x \in rows : TRUE
         IN  table[r].rating + SumRatings(table, rows \ {r})

(* A mean cut after the second decimal instead of rounded. *)
C19_round2_truncating(total, count) == (100 * total) \div count

(* round(total / count, 2) in hundredths; round() takes a tie to the even
   digit. *)
round2(total, count) ==
    LET q == (100 * total) \div count
        rem == (100 * total) % count
    IN  IF 2 * rem > count THEN q + 1
        ELSE IF 2 * rem < count THEN q
        ELSE IF q % 2 = 0 THEN q ELSE q + 1

(* avg_rating: 0.0 without ratings, else sum(r.rating) / len(ratings),
   rounded. *)
average_rating(table, agent_id) ==
    LET rows == OfAgent(table, agent_id)
    IN  IF rows = {} THEN 0
        ELSE round2(SumRatings(table, rows), Cardinality(rows))

(* What rate_agent returns after its commit. *)
rating_summary(table, agent_id) ==
    [NoStats EXCEPT !.average_rating = average_rating(table, agent_id),
                    !.rating_count = Cardinality(OfAgent(table, agent_id))]

(* Statistics whose distribution leaves the two-star ratings out. *)
C20_rating_stats_skips_two(agent_id) ==
    [average_rating |-> average_rating(ratings, agent_id),
     rating_count |-> Cardinality(OfAgent(ratings, agent_id)),
     review_count |-> Cardinality(OfAgent(reviews, agent_id)),
     rating_distribution |->
         [i \in MIN_RATING..MAX_RATING |->
             Cardinality({r \in OfAgent(ratings, agent_id) :
                             ratings[r].rating = i /\ i # 2})]]

(* AgentRatingStats(average_rating, rating_count, review_count,
   rating_distribution) *)
rating_stats(agent_id) ==
    [average_rating |-> average_rating(ratings, agent_id),
     rating_count |-> Cardinality(OfAgent(ratings, agent_id)),
     review_count |-> Cardinality(OfAgent(reviews, agent_id)),
     rating_distribution |->
         [i \in MIN_RATING..MAX_RATING |->
             Cardinality({r \in OfAgent(ratings, agent_id) : ratings[r].rating = i})]]

(* existing_rating.rating = rating, or db.add(AgentRating(...)) when the
   query found no row. *)
upsert_rating(existing, agent_id, user_id, rating) ==
    IF existing # NoId
    THEN [ratings EXCEPT ![existing].rating = rating]
    ELSE ratings @@ (next_rating_id :>
             [agent_id |-> agent_id, user_id |-> user_id, rating |-> rating])

(* if rating < 1 or rating > 5 *)
invalid_rating(rating) == rating < MIN_RATING \/ rating > MAX_RATING

rate_agent(current_user, agent_id, rating) ==
    /\ UNCHANGED <<users, next_user_id, agents, next_agent_id, spent, now, use_ses>>
    /\ UNCHANGED <<reviews, next_review_id, views, clicks, sessions, inflight>>
    /\ IF agent_id \notin DOMAIN agents
       THEN /\ result' = Res("rate_agent", <<current_user, agent_id, rating>>, NoId,
                             "Agent not found", {})
            /\ UNCHANGED <<ratings, next_rating_id>>
       ELSE IF invalid_rating(rating)
       THEN /\ result' = Res("rate_agent", <<current_user, agent_id, rating>>, agent_id,
                             "Rating must be between 1 and 5", {})
            /\ UNCHANGED <<ratings, next_rating_id>>
       ELSE \E existing \in first(OfPair(ratings, agent_id, current_user)) :
            /\ existing = NoId => next_rating_id <= MaxRatings
            /\ ratings' = upsert_rating(existing, agent_id, current_user, rating)
            /\ next_rating_id' =
                 IF existing = NoId THEN next_rating_id + 1 ELSE next_rating_id
            /\ result' = [Res("rate_agent", <<current_user, agent_id, rating>>,
                              agent_id, "ok", {})
                          EXCEPT !.stats = rating_summary(ratings', agent_id)]

get_agent_rating_stats(current_user, agent_id) ==
    /\ UNCHANGED <<users, next_user_id, agents, next_agent_id, spent, now, use_ses>>
    /\ UNCHANGED engagement
    /\ IF agent_id \notin DOMAIN agents
       THEN result' = Res("get_agent_rating_stats", <<current_user, agent_id>>, NoId,
                          "Agent not found", {})
       ELSE result' = [Res("get_agent_rating_stats", <<current_user, agent_id>>,
                           agent_id, "ok", {})
                       EXCEPT !.stats = rating_stats(agent_id)]

(* review_text.strip() *)
RECURSIVE lstrip(_)
lstrip(text) ==
    IF text # <<>> /\ Head(text) = " " THEN lstrip(Tail(text)) ELSE text

RECURSIVE rstrip(_)
rstrip(text) ==
    IF text # <<>> /\ text[Len(text)] = " "
    THEN rstrip(SubSeq(text, 1, Len(text) - 1))
    ELSE text

strip(text) == rstrip(lstrip(text))

(* if len(review_text.strip()) < 10 *)
text_too_short(review_text) == Len(strip(review_text)) < MIN_REVIEW_LENGTH

(* if agent.status != AgentStatus.APPROVED.value *)
(* A status test that lets every listing through. *)
C16_not_approved_never(agent) == FALSE

not_approved(agent) == agent.status # APPROVED

(* The existing review updated, or a new AgentReview added. *)
upsert_review(existing, agent_id, user_id, rating, review_text) ==
    IF existing # NoId
    THEN [reviews EXCEPT ![existing].rating = rating,
                         ![existing].review_text = review_text]
    ELSE reviews @@ (next_review_id :>
             [agent_id |-> agent_id, user_id |-> user_id, rating |-> rating,
              review_text |-> review_text, is_helpful_count |-> 0])

create_review(current_user, agent_id, rating, review_text) ==
    /\ UNCHANGED <<users, next_user_id, agents, next_agent_id, spent, now, use_ses>>
    /\ UNCHANGED <<views, clicks, sessions, inflight>>
    /\ IF agent_id \notin DOMAIN agents
       THEN /\ result' = Res("create_review", <<current_user, agent_id, rating, review_text>>,
                             NoId, "Agent not found", {})
            /\ UNCHANGED <<ratings, next_rating_id, reviews, next_review_id>>
       ELSE IF not_approved(agents[agent_id])
       THEN /\ result' = Res("create_review", <<current_user, agent_id, rating, review_text>>,
                             agent_id, "Cannot review agents that are not approved", {})
            /\ UNCHANGED <<ratings, next_rating_id, reviews, next_review_id>>
       ELSE IF invalid_rating(rating)
       THEN /\ result' = Res("create_review", <<current_user, agent_id, rating, review_text>>,
                             agent_id, "Rating must be between 1 and 5", {})
            /\ UNCHANGED <<ratings, next_rating_id, reviews, next_review_id>>
       ELSE IF text_too_short(review_text)
       THEN /\ result' = Res("create_review", <<current_user, agent_id, rating, review_text>>,
                             agent_id, "Review must be at least 10 characters", {})
            /\ UNCHANGED <<ratings, next_rating_id, reviews, next_review_id>>
       ELSE \E existing_review \in first(OfPair(reviews, agent_id, current_user)),
               existing_rating \in first(OfPair(ratings, agent_id, current_user)) :
            /\ existing_review = NoId => next_review_id <= MaxReviews
            /\ existing_rating = NoId => next_rating_id <= MaxRatings
            /\ reviews' = upsert_review(existing_review, agent_id, current_user,
                                        rating, review_text)
            /\ next_review_id' =
                 IF existing_review = NoId THEN next_review_id + 1 ELSE next_review_id
            /\ ratings' = upsert_rating(existing_rating, agent_id, current_user, rating)
            /\ next_rating_id' =
                 IF existing_rating = NoId THEN next_rating_id + 1 ELSE next_rating_id
            /\ result' = Res("create_review", <<current_user, agent_id, rating, review_text>>,
                             IF existing_review = NoId THEN next_review_id
                             ELSE existing_review,
                             "ok", {})

(* delete_review that takes the caller's rating of the listing with it. *)
C28_delete_review_with_rating(current_user, agent_id) ==
    /\ UNCHANGED <<users, next_user_id, agents, next_agent_id, spent, now, use_ses>>
    /\ UNCHANGED <<next_rating_id, next_review_id,
                   views, clicks, sessions, inflight>>
    /\ IF OfPair(reviews, agent_id, current_user) = {}
       THEN /\ result' = Res("delete_review", <<current_user, agent_id>>, NoId,
                             "Review not found", {})
            /\ UNCHANGED <<reviews, ratings>>
       ELSE \E review \in OfPair(reviews, agent_id, current_user) :
            /\ reviews' = [r \in DOMAIN reviews \ {review} |-> reviews[r]]
            /\ ratings' = [r \in DOMAIN ratings
                                 \ OfPair(ratings, agent_id, current_user)
                             |-> ratings[r]]
            /\ result' = Res("delete_review", <<current_user, agent_id>>, review,
                             "ok", {})

delete_review(current_user, agent_id) ==
    /\ UNCHANGED <<users, next_user_id, agents, next_agent_id, spent, now, use_ses>>
    /\ UNCHANGED <<ratings, next_rating_id, next_review_id,
                   views, clicks, sessions, inflight>>
    /\ IF OfPair(reviews, agent_id, current_user) = {}
       THEN /\ result' = Res("delete_review", <<current_user, agent_id>>, NoId,
                             "Review not found", {})
            /\ UNCHANGED reviews
       ELSE \E review \in OfPair(reviews, agent_id, current_user) :
            /\ reviews' = [r \in DOMAIN reviews \ {review} |-> reviews[r]]
            /\ result' = Res("delete_review", <<current_user, agent_id>>, review,
                             "ok", {})

mark_review_helpful(current_user, agent_id, review_id) ==
    /\ UNCHANGED <<users, next_user_id, agents, next_agent_id, spent, now, use_ses>>
    /\ UNCHANGED <<ratings, next_rating_id, next_review_id,
                   views, clicks, sessions, inflight>>
    /\ IF review_id \notin DOMAIN reviews \/ reviews[review_id].agent_id # agent_id
       THEN /\ result' = Res("mark_review_helpful",
                             <<current_user, agent_id, review_id>>, NoId,
                             "Review not found", {})
            /\ UNCHANGED reviews
       ELSE /\ reviews[review_id].is_helpful_count < MaxHelpful
            /\ reviews' = [reviews EXCEPT ![review_id].is_helpful_count = @ + 1]
            /\ result' = Res("mark_review_helpful",
                             <<current_user, agent_id, review_id>>, review_id,
                             "ok", {})

(* --------------------------- overlapping requests ----------------------- *)
(* rate_agent up to its query for an existing rating, and from there through
   its commit: between the two the request holds what it read. *)
FreeSlots == (1..MaxInflight) \ {q.slot : q \in inflight}
NextSlot == {slot \in FreeSlots : \A other \in FreeSlots : slot <= other}

rate_agent_read(current_user, agent_id, rating) ==
    /\ UNCHANGED <<users, next_user_id, agents, next_agent_id, spent, now, use_ses>>
    /\ UNCHANGED <<ratings, next_rating_id, reviews, next_review_id,
                   views, clicks, sessions>>
    /\ IF agent_id \notin DOMAIN agents
       THEN /\ result' = Res("rate_agent", <<current_user, agent_id, rating>>, NoId,
                             "Agent not found", {})
            /\ UNCHANGED inflight
       ELSE IF invalid_rating(rating)
       THEN /\ result' = Res("rate_agent", <<current_user, agent_id, rating>>, agent_id,
                             "Rating must be between 1 and 5", {})
            /\ UNCHANGED inflight
       ELSE \E existing \in first(OfPair(ratings, agent_id, current_user)),
               slot \in NextSlot :
            /\ inflight' = inflight \cup
                   {[slot |-> slot, user_id |-> current_user, agent_id |-> agent_id,
                     rating |-> rating, existing |-> existing]}
            /\ UNCHANGED result

rate_agent_commit(request) ==
    /\ UNCHANGED <<users, next_user_id, agents, next_agent_id, spent, now, use_ses>>
    /\ UNCHANGED <<reviews, next_review_id, views, clicks, sessions>>
    /\ request.existing = NoId => next_rating_id <= MaxRatings
    /\ ratings' = upsert_rating(request.existing, request.agent_id,
                                request.user_id, request.rating)
    /\ next_rating_id' =
         IF request.existing = NoId THEN next_rating_id + 1 ELSE next_rating_id
    /\ inflight' = inflight \ {request}
    /\ result' = [Res("rate_agent",
                      <<request.user_id, request.agent_id, request.rating>>,
                      request.agent_id, "ok", {})
                  EXCEPT !.stats = rating_summary(ratings', request.agent_id)]

(* mark_review_helpful as two steps of a request that other requests may
   run between: the query that loads the review, and `review.is_helpful_count
   += 1` with its commit, which writes the loaded count plus one. *)
mark_review_helpful_read(current_user, agent_id, review_id) ==
    /\ UNCHANGED <<users, next_user_id, agents, next_agent_id, spent, now, use_ses>>
    /\ UNCHANGED <<ratings, next_rating_id, reviews, next_review_id,
                   views, clicks, sessions>>
    /\ IF review_id \notin DOMAIN reviews \/ reviews[review_id].agent_id # agent_id
       THEN /\ result' = Res("mark_review_helpful",
                             <<current_user, agent_id, review_id>>, NoId,
                             "Review not found", {})
            /\ UNCHANGED inflight
       ELSE \E slot \in NextSlot :
            /\ inflight' = inflight \cup
                   {[slot |-> slot, user_id |-> current_user, agent_id |-> agent_id,
                     review_id |-> review_id,
                     is_helpful_count |-> reviews[review_id].is_helpful_count]}
            /\ UNCHANGED result

mark_review_helpful_commit(request) ==
    /\ UNCHANGED <<users, next_user_id, agents, next_agent_id, spent, now, use_ses>>
    /\ UNCHANGED <<ratings, next_rating_id, next_review_id, views, clicks, sessions>>
    /\ request.is_helpful_count < MaxHelpful
    /\ reviews' = [reviews EXCEPT ![request.review_id].is_helpful_count =
                                      request.is_helpful_count + 1]
    /\ inflight' = inflight \ {request}
    /\ result' = Res("mark_review_helpful",
                     <<request.user_id, request.agent_id, request.review_id>>,
                     request.review_id, "ok", {})

(* approve_reject_agent as the steps of a request that other requests may
   run between: the lookup and the pending test; the assignments and
   db.commit(); the awaited notification and the return. *)
approve_reject_agent_check(current_admin, agent_id, approve) ==
    /\ UNCHANGED <<users, next_user_id, agents, next_agent_id, spent, now, use_ses>>
    /\ UNCHANGED <<ratings, next_rating_id, reviews, next_review_id,
                   views, clicks, sessions>>
    /\ IF agent_id \notin DOMAIN agents
       THEN /\ result' = Res("approve_reject_agent",
                             <<current_admin, agent_id, approve>>, NoId,
                             "Agent not found", {})
            /\ UNCHANGED inflight
       ELSE IF already_reviewed(agents[agent_id])
       THEN /\ result' = Res("approve_reject_agent",
                             <<current_admin, agent_id, approve>>, agent_id,
                             "Agent has already been reviewed", {})
            /\ UNCHANGED inflight
       ELSE \E slot \in NextSlot :
            /\ inflight' = inflight \cup
                   {[slot |-> slot, current_admin |-> current_admin,
                     agent_id |-> agent_id, approve |-> approve,
                     committed |-> FALSE]}
            /\ UNCHANGED result

(* A commit that writes only while the listing is still pending. *)
C24_approve_reject_agent_commit_if_pending(request) ==
    /\ UNCHANGED <<users, next_user_id, next_agent_id, spent, now, use_ses>>
    /\ UNCHANGED <<ratings, next_rating_id, reviews, next_review_id,
                   views, clicks, sessions>>
    /\ ~request.committed
    /\ agents' =
         IF already_reviewed(agents[request.agent_id]) THEN agents
         ELSE [agents EXCEPT
                 ![request.agent_id].status =
                     IF request.approve THEN APPROVED ELSE REJECTED,
                 ![request.agent_id].approved_by = request.current_admin,
                 ![request.agent_id].approved_at = now]
    /\ inflight' = (inflight \ {request})
                       \cup {[request EXCEPT !.committed = TRUE]}
    /\ UNCHANGED result

approve_reject_agent_commit(request) ==
    /\ UNCHANGED <<users, next_user_id, next_agent_id, spent, now, use_ses>>
    /\ UNCHANGED <<ratings, next_rating_id, reviews, next_review_id,
                   views, clicks, sessions>>
    /\ ~request.committed
    /\ agents' = [agents EXCEPT
           ![request.agent_id].status =
               IF request.approve THEN APPROVED ELSE REJECTED,
           ![request.agent_id].approved_by = request.current_admin,
           ![request.agent_id].approved_at = now]
    /\ inflight' = (inflight \ {request})
                       \cup {[request EXCEPT !.committed = TRUE]}
    /\ UNCHANGED result

approve_reject_agent_notify(request) ==
    /\ UNCHANGED <<users, next_user_id, agents, next_agent_id, spent, now, use_ses>>
    /\ UNCHANGED <<ratings, next_rating_id, reviews, next_review_id,
                   views, clicks, sessions>>
    /\ request.committed
    /\ inflight' = inflight \ {request}
    /\ LET author == users[agents[request.agent_id].author_id].email IN
       \E failed \in send_failures({author}) :
         result' = [Res("approve_reject_agent",
                        <<request.current_admin, request.agent_id, request.approve>>,
                        request.agent_id, "ok", {author})
                    EXCEPT !.failed = failed]

(* verify_otp_and_login as two steps of a request that other requests may
   run between: the lookup, refresh and tests of the code; the clearing of
   the code with its commit, the token and the return. *)
verify_otp_and_login_check(username, otp_code) ==
    /\ UNCHANGED <<next_user_id, agents, next_agent_id, now, use_ses>>
    /\ UNCHANGED <<ratings, next_rating_id, reviews, next_review_id,
                   views, clicks, sessions>>
    /\ UNCHANGED <<users, spent>>
    /\ IF UserByUsername(username) = {}
       THEN /\ result' = Res("verify_otp_and_login", <<username, otp_code>>, NoId,
                             "Invalid username", {})
            /\ UNCHANGED inflight
       ELSE LET u == CHOOSE i \in UserByUsername(username) : TRUE
                detail == check_otp(users[u], otp_code)
            IN  IF detail # "ok"
                THEN /\ result' = Res("verify_otp_and_login", <<username, otp_code>>,
                                      u, detail, {})
                     /\ UNCHANGED inflight
                ELSE \E slot \in NextSlot :
                     /\ inflight' = inflight \cup
                            {[slot |-> slot, user_id |-> u, username |-> username,
                              otp_code |-> otp_code]}
                     /\ UNCHANGED result

verify_otp_and_login_commit(request) ==
    /\ UNCHANGED <<next_user_id, agents, next_agent_id, now, use_ses>>
    /\ UNCHANGED <<ratings, next_rating_id, reviews, next_review_id,
                   views, clicks, sessions>>
    /\ users' = [users EXCEPT ![request.user_id] = clear_otp(users[request.user_id])]
    /\ spent' = spent \cup {request.user_id}
    /\ inflight' = inflight \ {request}
    /\ result' = Res("verify_otp_and_login", <<request.username, request.otp_code>>,
                     request.user_id, "ok", {})

(* deactivate_user as two steps of a request that other requests may run
   between: the lookup and the tests; the assignment with its commit. *)
deactivate_user_check(current_admin, user_id) ==
    /\ UNCHANGED <<next_user_id, agents, next_agent_id, now, use_ses>>
    /\ UNCHANGED <<ratings, next_rating_id, reviews, next_review_id,
                   views, clicks, sessions>>
    /\ UNCHANGED <<users, spent>>
    /\ IF user_id \notin DOMAIN users
       THEN /\ result' = Res("deactivate_user", <<current_admin, user_id>>, NoId,
                             "User not found", {})
            /\ UNCHANGED inflight
       ELSE IF user_id = current_admin
       THEN /\ result' = Res("deactivate_user", <<current_admin, user_id>>, user_id,
                             "Cannot deactivate your own account", {})
            /\ UNCHANGED inflight
       ELSE IF ~users[user_id].is_active
       THEN /\ result' = Res("deactivate_user", <<current_admin, user_id>>, user_id,
                             "User is already inactive", {})
            /\ UNCHANGED inflight
       ELSE \E slot \in NextSlot :
            /\ inflight' = inflight \cup
                   {[slot |-> slot, current_admin |-> current_admin,
                     user_id |-> user_id]}
            /\ UNCHANGED result

deactivate_user_commit(request) ==
    /\ UNCHANGED <<next_user_id, agents, next_agent_id, now, use_ses>>
    /\ UNCHANGED <<ratings, next_rating_id, reviews, next_review_id,
                   views, clicks, sessions>>
    /\ UNCHANGED spent
    /\ users' = [users EXCEPT ![request.user_id].is_active = FALSE]
    /\ inflight' = inflight \ {request}
    /\ result' = Res("deactivate_user", <<request.current_admin, request.user_id>>,
                     request.user_id, "ok", {})

(* GET /agents/: the caller chooses the status to filter by ("approved"
   when the parameter is missing or empty) and, if it likes, a category.
   The search term and the paging are left out: listings carry no text
   here, and the first page holds every listing of the model. *)
get_agents(current_user, category, status) ==
    /\ UNCHANGED <<users, next_user_id, agents, next_agent_id, spent, now, use_ses>>
    /\ UNCHANGED engagement
    /\ LET wanted == IF status = None THEN APPROVED ELSE status IN
       result' = [Res("get_agents", <<current_user, category, status>>, NoId,
                      "ok", {})
                  EXCEPT !.listed =
                      {a \in DOMAIN agents :
                          /\ agents[a].status = wanted
                          /\ category # None => agents[a].category = category}]

(* GET /users/{user_id}/agents: every listing of the account for the
   account itself and for an admin, its approved listings for anyone
   else. *)
get_user_agents(current_user, user_id) ==
    /\ UNCHANGED <<users, next_user_id, agents, next_agent_id, spent, now, use_ses>>
    /\ UNCHANGED engagement
    /\ IF user_id \notin DOMAIN users
       THEN result' = Res("get_user_agents", <<current_user, user_id>>, NoId,
                          "User not found", {})
       ELSE result' = [Res("get_user_agents", <<current_user, user_id>>, user_id,
                           "ok", {})
                       EXCEPT !.listed =
                           IF current_user = user_id \/ is_admin(users[current_user])
                           THEN {a \in DOMAIN agents : agents[a].author_id = user_id}
                           ELSE {a \in DOMAIN agents :
                                    /\ agents[a].author_id = user_id
                                    /\ agents[a].status = APPROVED}]

(* ------------------------------ requests -------------------------------- *)
(* Register, InitiateLogin and VerifyOtpAndLogin are calls of the AuthService
   methods; the admin and listing requests are the route handlers, called by
   the account the authentication dependency resolved. *)
Register == \E email \in Emails, username \in Usernames, password \in RegisterPasswords :
    register_user(email, username, password)

InitiateLogin == \E username \in Usernames : initiate_login(username)

VerifyOtpAndLogin == \E username \in Usernames, otp_code \in Codes :
    verify_otp_and_login(username, otp_code)

ApproveUser == \E c \in UserIds, user_id \in UserIds :
    get_current_admin(c) /\ approve_user(c, user_id)

DeactivateUser == \E c \in UserIds, user_id \in UserIds :
    get_current_admin(c) /\ deactivate_user(c, user_id)

RejectUser == \E c \in UserIds, user_id \in UserIds :
    get_current_admin(c) /\ reject_user(c, user_id)

MakeUserAdmin == \E c \in UserIds, user_id \in UserIds :
    get_current_admin(c) /\ make_user_admin(c, user_id)

CreateAgent == \E c \in UserIds, category \in CategoryInputs :
    get_current_user(c) /\ create_agent(c, category)

ApproveRejectAgent == \E c \in UserIds, agent_id \in AgentIds, approve \in BOOLEAN :
    get_current_admin(c) /\ approve_reject_agent(c, agent_id, approve)

ChangePassword ==
    \E c \in DOMAIN users, current_password \in CurrentPasswordInputs,
       new_password \in Passwords :
        get_current_user(c) /\ change_password(c, current_password, new_password)

GetAgent == \E c \in DOMAIN users, agent_id \in AgentIdInputs :
    get_current_user(c) /\ get_agent(c, agent_id)

TrackAgentClick ==
    \E c \in DOMAIN users, agent_id \in AgentIdInputs, click_type \in ClickTypeInputs :
        get_current_user(c) /\ track_agent_click(c, agent_id, click_type)

TrackAgentSession ==
    \E c \in DOMAIN users, agent_id \in AgentIdInputs,
       duration_seconds \in DurationInputs :
        get_current_user(c) /\ track_agent_session(c, agent_id, duration_seconds)

RateAgent == \E c \in DOMAIN users, agent_id \in AgentIdInputs, rating \in RatingInputs :
    get_current_user(c) /\ rate_agent(c, agent_id, rating)

GetAgentRatingStats == \E c \in DOMAIN users, agent_id \in AgentIdInputs :
    get_current_user(c) /\ get_agent_rating_stats(c, agent_id)

CreateReview ==
    \E c \in DOMAIN users, agent_id \in AgentIdInputs, rating \in RatingInputs,
       review_text \in ReviewTexts :
        get_current_user(c) /\ create_review(c, agent_id, rating, review_text)

DeleteReview == \E c \in DOMAIN users, agent_id \in AgentIdInputs :
    get_current_user(c) /\ delete_review(c, agent_id)

MarkReviewHelpful ==
    \E c \in DOMAIN users, agent_id \in AgentIdInputs, review_id \in ReviewIdInputs :
        get_current_user(c) /\ mark_review_helpful(c, agent_id, review_id)

RateAgentRead ==
    \E c \in DOMAIN users, agent_id \in AgentIdInputs, rating \in RatingInputs :
        get_current_user(c) /\ rate_agent_read(c, agent_id, rating)

RateAgentCommit == \E request \in inflight : rate_agent_commit(request)

ApproveRejectAgentCheck ==
    \E c \in UserIds, agent_id \in AgentIds, approve \in BOOLEAN :
        get_current_admin(c) /\ approve_reject_agent_check(c, agent_id, approve)

ApproveRejectAgentCommit ==
    \E request \in inflight : approve_reject_agent_commit(request)

ApproveRejectAgentNotify ==
    \E request \in inflight : approve_reject_agent_notify(request)

VerifyOtpAndLoginCheck == \E username \in Usernames, otp_code \in Codes :
    verify_otp_and_login_check(username, otp_code)

VerifyOtpAndLoginCommit ==
    \E request \in inflight : verify_otp_and_login_commit(request)

DeactivateUserCheck == \E c \in UserIds, user_id \in UserIds :
    get_current_admin(c) /\ deactivate_user_check(c, user_id)

DeactivateUserCommit == \E request \in inflight : deactivate_user_commit(request)

GetAgents ==
    \E c \in DOMAIN users, category \in CategoryFilters, status \in StatusFilters :
        get_current_user(c) /\ get_agents(c, category, status)

GetUserAgents == \E c \in DOMAIN users, user_id \in UserIds :
    get_current_user(c) /\ get_user_agents(c, user_id)

MarkReviewHelpfulRead ==
    \E c \in DOMAIN users, agent_id \in AgentIdInputs, review_id \in ReviewIdInputs :
        get_current_user(c) /\ mark_review_helpful_read(c, agent_id, review_id)

MarkReviewHelpfulCommit ==
    \E request \in inflight : mark_review_helpful_commit(request)

TickTo(limit) ==
    /\ now < limit
    /\ now' = now + 1
    /\ result' = Res("tick", <<>>, NoId, "ok", {})
    /\ UNCHANGED served
    /\ UNCHANGED <<users, next_user_id, agents, next_agent_id, spent, engagement, use_ses>>

Tick == TickTo(MaxTime)

TickOtp == TickTo(MaxTimeOtp)

TickView ==
    /\ now + ViewTick <= MaxViewTicks * ViewTick
    /\ now' = now + ViewTick
    /\ result' = Res("tick", <<>>, NoId, "ok", {})
    /\ UNCHANGED served
    /\ UNCHANGED <<users, next_user_id, agents, next_agent_id, spent, engagement, use_ses>>

(* A specification bounds the length of its behaviours or does not. *)
Unmetered == UNCHANGED served
Metered == served < MaxRequests /\ served' = served + 1

(* The identity lifecycle: accounts and their one-time codes. *)
Next ==
    \/ Unmetered /\ Register
    \/ Unmetered /\ InitiateLogin
    \/ Unmetered /\ VerifyOtpAndLogin
    \/ Unmetered /\ ApproveUser
    \/ Unmetered /\ DeactivateUser
    \/ Unmetered /\ RejectUser
    \/ Unmetered /\ MakeUserAdmin
    \/ Tick

Spec == Init /\ [][Next]_vars

(* The login handlers with the clock running past a code's expiry. *)
NextOtp ==
    \/ Unmetered /\ InitiateLogin
    \/ Unmetered /\ VerifyOtpAndLogin
    \/ TickOtp

SpecOtp == Init /\ [][NextOtp]_vars

(* The listing approval workflow, with the account handlers that make
   its authors and reviewers. *)
NextListing ==
    \/ Unmetered /\ Register
    \/ Unmetered /\ ApproveUser
    \/ Unmetered /\ MakeUserAdmin
    \/ Unmetered /\ CreateAgent
    \/ Unmetered /\ ApproveRejectAgent
    \/ Tick

SpecListing == Init /\ [][NextListing]_vars

(* Ratings and reviews on listings as they are submitted and decided. *)
NextReviews ==
    \/ Unmetered /\ CreateAgent
    \/ Unmetered /\ ApproveRejectAgent
    \/ Unmetered /\ RateAgent
    \/ Unmetered /\ CreateReview
    \/ Unmetered /\ DeleteReview
    \/ Unmetered /\ MarkReviewHelpful
    \/ Unmetered /\ GetAgentRatingStats

SpecReviews == Init /\ [][NextReviews]_vars

(* Ratings and reviews by the sample accounts on the sample listings. *)
NextRatings ==
    \/ Unmetered /\ RateAgent
    \/ Unmetered /\ CreateReview
    \/ Unmetered /\ DeleteReview
    \/ Unmetered /\ GetAgentRatingStats

SpecRatings == InitSample /\ [][NextRatings]_vars

(* Every handler that writes, in behaviours of at most MaxRequests requests. *)
NextAll ==
    \/ Metered /\ Register
    \/ Metered /\ InitiateLogin
    \/ Metered /\ VerifyOtpAndLogin
    \/ Metered /\ ApproveUser
    \/ Metered /\ DeactivateUser
    \/ Metered /\ RejectUser
    \/ Metered /\ MakeUserAdmin
    \/ Metered /\ ChangePassword
    \/ Metered /\ CreateAgent
    \/ Metered /\ ApproveRejectAgent
    \/ Metered /\ GetAgent
    \/ Metered /\ RateAgent
    \/ Metered /\ CreateReview
    \/ Metered /\ DeleteReview
    \/ Metered /\ MarkReviewHelpful
    \/ Metered /\ TrackAgentClick
    \/ Metered /\ TrackAgentSession

SpecAll == Init /\ [][NextAll]_vars

(* The handlers that send mail, with mail going through SES. *)
NextSes ==
    \/ Unmetered /\ Register
    \/ Unmetered /\ ApproveUser
    \/ Unmetered /\ InitiateLogin
    \/ Unmetered /\ CreateAgent
    \/ Unmetered /\ ApproveRejectAgent

SpecSes == InitSes /\ [][NextSes]_vars

(* Rating requests of the sample accounts that overlap. *)
NextRace ==
    \/ Unmetered /\ RateAgentRead
    \/ Unmetered /\ RateAgentCommit

SpecRace == InitSample /\ [][NextRace]_vars

(* Reviews written and marked helpful by requests that overlap. *)
NextHelpful ==
    \/ Unmetered /\ CreateReview
    \/ Unmetered /\ MarkReviewHelpfulRead
    \/ Unmetered /\ MarkReviewHelpfulCommit

SpecHelpful == InitSample /\ [][NextHelpful]_vars

(* Listings decided by requests that overlap. *)
NextDecide ==
    \/ Unmetered /\ Register
    \/ Unmetered /\ ApproveUser
    \/ Unmetered /\ CreateAgent
    \/ Unmetered /\ ApproveRejectAgentCheck
    \/ Unmetered /\ ApproveRejectAgentCommit
    \/ Unmetered /\ ApproveRejectAgentNotify

SpecDecide == Init /\ [][NextDecide]_vars

(* Codes issued and verified by requests that overlap. *)
NextVerify ==
    \/ Unmetered /\ InitiateLogin
    \/ Unmetered /\ VerifyOtpAndLoginCheck
    \/ Unmetered /\ VerifyOtpAndLoginCommit
    \/ TickOtp

SpecVerify == Init /\ [][NextVerify]_vars

(* Accounts administered by requests that overlap. *)
NextAdmins ==
    \/ Unmetered /\ Register
    \/ Unmetered /\ ApproveUser
    \/ Unmetered /\ MakeUserAdmin
    \/ Unmetered /\ DeactivateUserCheck
    \/ Unmetered /\ DeactivateUserCommit

SpecAdmins == Init /\ [][NextAdmins]_vars

(* The routes that return listings, while listings are submitted and
   decided. *)
NextReads ==
    \/ Unmetered /\ Register
    \/ Unmetered /\ ApproveUser
    \/ Unmetered /\ CreateAgent
    \/ Unmetered /\ ApproveRejectAgent
    \/ Unmetered /\ GetAgent
    \/ Unmetered /\ GetAgents
    \/ Unmetered /\ GetUserAgents

SpecReads == Init /\ [][NextReads]_vars

(* Fetching listings by id while listings are submitted and decided and
   the clock moves across the view window. *)
NextViews ==
    \/ Unmetered /\ Register
    \/ Unmetered /\ ApproveUser
    \/ Unmetered /\ CreateAgent
    \/ Unmetered /\ ApproveRejectAgent
    \/ Unmetered /\ GetAgent
    \/ TickView

SpecViews == Init /\ [][NextViews]_vars

(* ------------------------------ properties ------------------------------ *)
Did(op) == result.op = op /\ result.detail = "ok"

Kept == DOMAIN users \cap DOMAIN users'

(* C1: an inactive account never completes OTP verification: whenever
   verify_otp_and_login has just minted a token, the account it verified is
   active. *)
C1_InactiveNeverVerifies ==
    Did("verify_otp_and_login") => users[result.target].is_active

(* C2: a one-time code is single-use: once verification has succeeded on an
   account, every verification on it fails with "OTP has expired" and changes
   nothing, whatever code is supplied, until a new initiate_login succeeds
   on that account; a success leaves no code on file. *)
C2_SingleUse ==
    [][\A u \in DOMAIN users :
        /\ (u \in spent /\ result'.op = "verify_otp_and_login"
                /\ result'.args[1] = users[u].username)
            => (result'.detail = "OTP has expired" /\ users' = users)
        /\ (u \in spent /\ u \in Kept /\ u \notin spent')
            => (result'.op = "initiate_login" /\ result'.target = u
                /\ result'.detail = "ok")
        /\ (result'.op = "verify_otp_and_login" /\ result'.detail = "ok"
                /\ result'.target = u)
            => (u \in spent' /\ users'[u].otp_code = None)
      ]_vars

C2_Witness ==
    /\ result.op = "verify_otp_and_login"
    /\ result.detail = "OTP has expired"
    /\ result.target \in spent
    /\ result.args[2] \in Codes

(* C3: Decide is one-way: a listing row changes only by a successful
   approve_reject_agent that takes it from pending to approved or rejected;
   a Decide on a listing that is no longer pending fails with "already
   reviewed" and changes nothing; listings are never removed. *)
C3_DecideOneWay ==
    [][\A a \in DOMAIN agents :
        /\ a \in DOMAIN agents'
        /\ agents'[a] # agents[a]
            => /\ agents[a].status = PENDING
               /\ agents'[a].status \in {APPROVED, REJECTED}
               /\ result'.op = "approve_reject_agent"
               /\ result'.target = a
               /\ result'.detail = "ok"
        /\ (result'.op = "approve_reject_agent" /\ result'.args[2] = a
                /\ agents[a].status # PENDING)
            => (result'.detail = "Agent has already been reviewed"
                /\ agents' = agents)
      ]_vars

C3_Witness ==
    /\ result.op = "approve_reject_agent"
    /\ result.detail = "Agent has already been reviewed"
    /\ agents[result.target].status \in {APPROVED, REJECTED}
    /\ result.args[1] # agents[result.target].approved_by
    /\ now # agents[result.target].approved_at

(* C4: a newly registered account is inactive with roles exactly ["user"];
   initiate_login on an inactive account fails with "Account not activated"
   and stores nothing; an account that was never approved is inactive and has
   no code or expiry on file, and a token is only minted for an approved
   account. *)
C4_NeverApprovedNeverLogsIn ==
    /\ [](\A u \in DOMAIN users :
            /\ (Did("register_user") /\ result.target = u)
                => (~users[u].is_active /\ users[u].roles = <<"user">>)
            /\ users[u].approved_at = NoTime
                => /\ ~users[u].is_active
                   /\ users[u].otp_code = None
                   /\ users[u].otp_expires_at = NoTime
            /\ (Did("verify_otp_and_login") /\ result.target = u)
                => users[u].approved_at # NoTime)
    /\ [][\A u \in DOMAIN users :
            (result'.op = "initiate_login" /\ result'.args[1] = users[u].username
                /\ ~users[u].is_active)
            => (result'.detail = "Account not activated" /\ users' = users)
         ]_vars

C4_Witness ==
    /\ result.op = "initiate_login"
    /\ result.detail = "Account not activated"
    /\ users[result.target].approved_at = NoTime

(* C5: no two accounts share an email or a username; register_user fails
   and creates nothing when the email is held by any account ("Email already
   registered", also when the username collides too) or, the email being
   free, when the username is held ("Username already taken"). *)
C5_UniqueEmailAndUsername ==
    /\ [](\A u, v \in DOMAIN users :
            u # v => (users[u].email # users[v].email
                      /\ users[u].username # users[v].username))
    /\ [][result'.op = "register_user" =>
            /\ email_registered(result'.args[1])
                => (result'.detail = "Email already registered"
                    /\ users' = users /\ next_user_id' = next_user_id)
            /\ (~email_registered(result'.args[1])
                    /\ \E i \in DOMAIN users : users[i].username = result'.args[2])
                => (result'.detail = "Username already taken"
                    /\ users' = users /\ next_user_id' = next_user_id)
         ]_vars

C5_Witness ==
    /\ result.op = "register_user"
    /\ result.detail = "Email already registered"
    /\ \E i \in DOMAIN users :
        /\ users[i].email = result.args[1]
        /\ users[i].username = result.args[2]
        /\ ~users[i].is_active
        /\ users[i].approved_at # NoTime

(* C6 as stated: an account is activated at most once: every step that
   makes an account active acts on an account never approved before. *)
C6_ActivatedOnce ==
    [][\A u \in Kept :
        (~users[u].is_active /\ users'[u].is_active)
            => users[u].approved_at = NoTime
      ]_vars

(* C6 as amended: approve_user succeeds on every existing inactive account,
   also one approved before and since deactivated, and records the new
   approver and time; an account becomes active only by a successful
   approve_user and inactive only by a successful deactivate_user, so two
   approvals of one account are separated by a deactivation. *)
C6_ActivatedOncePerInactivePeriod ==
    [][\A u \in Kept :
        /\ (result'.op = "approve_user" /\ result'.args[2] = u
                /\ ~users[u].is_active)
            => /\ result'.detail = "ok"
               /\ users'[u].is_active
               /\ users'[u].approved_by = result'.args[1]
               /\ users'[u].approved_at = now
        /\ (~users[u].is_active /\ users'[u].is_active)
            => (result'.op = "approve_user" /\ result'.target = u
                /\ result'.detail = "ok")
        /\ (users[u].is_active /\ ~users'[u].is_active)
            => (result'.op = "deactivate_user" /\ result'.target = u
                /\ result'.detail = "ok")
      ]_vars

C6_Witness ==
    /\ Did("approve_user")
    /\ users[result.target].otp_code # None
    /\ users[result.target].is_active

(* C7: approve_user on an account that is already active fails with "User
   is already active" and leaves every account row as it was: active flag,
   approver and approval time. *)
C7_ApproveActiveIsError ==
    [][\A u \in DOMAIN users :
        (result'.op = "approve_user" /\ result'.args[2] = u
            /\ users[u].is_active)
        => (result'.detail = "User is already active" /\ users' = users)
      ]_vars

C7_Witness ==
    /\ result.op = "approve_user"
    /\ result.detail = "User is already active"
    /\ result.args[1] # users[result.target].approved_by
    /\ now # users[result.target].approved_at

(* C8: a verification that fails with "Invalid OTP code" leaves the stored
   code and expiry unchanged, and while a code is on file and its expiry has
   not passed, a verification with that code succeeds. *)
C8_MismatchKeepsCode ==
    /\ [][(result'.op = "verify_otp_and_login"
              /\ result'.detail = "Invalid OTP code")
            => users' = users]_vars
    /\ [](\A u \in DOMAIN users :
            (users[u].otp_code # None /\ users[u].otp_expires_at # NoTime
                /\ now <= users[u].otp_expires_at)
            => ENABLED (/\ verify_otp_and_login(users[u].username, users[u].otp_code)
                        /\ result'.detail = "ok"))

C8_Witness ==
    /\ result.op = "verify_otp_and_login"
    /\ result.detail = "Invalid OTP code"
    /\ users[result.target].otp_code # None
    /\ now = users[result.target].otp_expires_at

(* C9: initiate_login at time t stores expiry t + OTP_EXPIRE_MINUTES; with a
   code on file, verification fails with "OTP has expired" once the clock has
   passed the expiry, whatever code is supplied, and until then succeeds with
   the stored code and fails with "Invalid OTP code" with any other. *)
C9_ExpiresAfterTtl ==
    [][\A u \in DOMAIN users :
        /\ (result'.op = "initiate_login" /\ result'.detail = "ok"
                /\ result'.target = u)
            => (users'[u].otp_code \in Codes
                /\ users'[u].otp_expires_at = now + OTP_EXPIRE_MINUTES)
        /\ (result'.op = "verify_otp_and_login"
                /\ result'.args[1] = users[u].username
                /\ users[u].otp_code # None)
            => result'.detail =
                 IF now > users[u].otp_expires_at THEN "OTP has expired"
                 ELSE IF result'.args[2] # users[u].otp_code THEN "Invalid OTP code"
                 ELSE "ok"
      ]_vars

C9_Witness ==
    /\ result.op = "verify_otp_and_login"
    /\ result.detail = "OTP has expired"
    /\ users[result.target].otp_code # None
    /\ result.args[2] # users[result.target].otp_code
    /\ now > users[result.target].otp_expires_at

(* C10: for every account the stored code and its expiry are both present
   or both absent. *)
C10_CodeAndExpiryTogether ==
    \A u \in DOMAIN users :
        (users[u].otp_code = None) <=> (users[u].otp_expires_at = NoTime)

C10_Witness ==
    /\ Did("verify_otp_and_login")
    /\ users[result.target].otp_code = None
    /\ users[result.target].otp_expires_at = NoTime
    /\ \E v \in DOMAIN users : users[v].otp_code # None

(* The details of the HTTPExceptions the handlers raise. *)
HttpErrors ==
    {"Email already registered", "Username already taken", "Invalid username",
     "Account not activated", "OTP has expired", "Invalid OTP code",
     "User not found", "User is already active",
     "Cannot deactivate your own account", "User is already inactive",
     "Cannot reject an active user", "Cannot reject your own account",
     "Cannot grant admin role to inactive user", "User is already an admin",
     "Current password is incorrect", "Invalid category", "Agent not found",
     "Agent has already been reviewed", "Not authorized to view this agent",
     "Rating must be between 1 and 5",
     "Cannot review agents that are not approved",
     "Review must be at least 10 characters", "Review not found",
     "Invalid click type", "Duration must be a positive number"}

WritingHandlers ==
    {"register_user", "initiate_login", "verify_otp_and_login", "approve_user",
     "deactivate_user", "reject_user", "make_user_admin", "change_password",
     "create_agent", "approve_reject_agent", "get_agent", "rate_agent",
     "create_review", "delete_review", "mark_review_helpful",
     "track_agent_click", "track_agent_session"}

(* C11: a handler that answers with an HTTP error has written nothing: the
   accounts, listings, ratings, reviews and events, and the counters that
   issue their ids, are as before the call, and no mail was sent. *)
C11_FailureChangesNothing ==
    [][(result'.op \in WritingHandlers /\ result'.detail \in HttpErrors)
        => /\ UNCHANGED <<users, next_user_id, agents, next_agent_id>>
           /\ UNCHANGED <<ratings, next_rating_id, reviews, next_review_id>>
           /\ UNCHANGED <<views, clicks, sessions>>
           /\ result'.mails = {}
      ]_vars

C11_Witness ==
    /\ result.op = "create_review"
    /\ result.detail = "Review must be at least 10 characters"
    /\ agents[result.target].status = APPROVED
    /\ \E u \in DOMAIN users : result.args[1] = u /\ ~is_admin(users[u])

(* The handlers that call the email service after their commit. *)
NotifyingHandlers ==
    {"register_user", "approve_user", "initiate_login", "create_agent",
     "approve_reject_agent"}

(* What a notifying handler answers when every send succeeded. *)
ReplyWhenSent(op) ==
    IF op = "initiate_login" THEN send_otp_email(TRUE) ELSE "ok"

(* C12: a failed send never changes the outcome of register_user,
   approve_user, initiate_login, create_agent or approve_reject_agent: the
   caller is answered exactly as when every send succeeded. *)
C12_SendFailureKeepsReply ==
    [][(result'.op \in NotifyingHandlers /\ result'.detail = "ok")
        => result'.reply = ReplyWhenSent(result'.op)
      ]_vars

(* An account leaves the table only by a reject_user call that names it,
   and it was inactive and was not the caller's own. *)
C13_RemovedOnlyInactiveOther ==
    \A u \in DOMAIN users \ DOMAIN users' :
        /\ result'.op = "reject_user" /\ result'.detail = "ok"
        /\ result'.args[2] = u /\ result'.args[1] # u
        /\ ~users[u].is_active
        /\ DOMAIN users' = DOMAIN users \ {u}

(* reject_user on an account that is active or is the caller's own answers
   with an error and leaves the accounts as they were. *)
C13_ActiveOrSelfRefused ==
    \A u \in DOMAIN users :
        (result'.op = "reject_user" /\ result'.args[2] = u
            /\ (users[u].is_active \/ result'.args[1] = u))
        => (result'.detail \in HttpErrors /\ users' = users)

(* C13 as stated: an account is deleted only while inactive and never by
   itself: reject_user fails when the target is active or is the acting
   admin and otherwise removes the account record. *)
C13_RejectRemovesOtherwise ==
    [][/\ C13_RemovedOnlyInactiveOther
       /\ C13_ActiveOrSelfRefused
       /\ \A u \in DOMAIN users :
            (result'.op = "reject_user" /\ result'.args[2] = u
                /\ ~users[u].is_active /\ result'.args[1] # u)
            => (result'.detail = "ok" /\ u \notin DOMAIN users')
      ]_vars

(* C13, amended: an account is deleted only while inactive and never by
   itself: reject_user fails when the target is active or is the acting
   admin; otherwise it removes the account record and only that record,
   unless a stored row still refers to the account (as approver, author or
   owner of a rating, review or event), in which case the storage refuses
   the delete and the account stays. *)
C13_RejectRemovesUnlessReferenced ==
    [][/\ C13_RemovedOnlyInactiveOther
       /\ C13_ActiveOrSelfRefused
       /\ \A u \in DOMAIN users :
            (result'.op = "reject_user" /\ result'.args[2] = u
                /\ ~users[u].is_active /\ result'.args[1] # u)
            => IF ReferencedUser(u)
               THEN result'.detail = "IntegrityError" /\ users' = users
               ELSE /\ result'.detail = "ok"
                    /\ users' = [i \in DOMAIN users \ {u} |-> users[i]]
      ]_vars

C13_Witness ==
    /\ Did("reject_user")
    /\ result.target \notin DOMAIN users
    /\ result.args[1] \in DOMAIN users
    /\ result.args[1] # result.target

(* C14: deactivate_user fails when the target does not exist, when the
   target is the caller (whatever its active flag), or when the target is
   already inactive; on success it sets the target's active flag to false
   and changes nothing else: roles, approver, approval time and any stored
   code and expiry stay, as does every other account. *)
C14_DeactivateOnlyClearsActive ==
    [][result'.op = "deactivate_user"
        => LET u == result'.args[2] IN
           IF u \notin DOMAIN users
           THEN result'.detail = "User not found" /\ users' = users
           ELSE IF u = result'.args[1]
           THEN /\ result'.detail = "Cannot deactivate your own account"
                /\ users' = users
           ELSE IF ~users[u].is_active
           THEN result'.detail = "User is already inactive" /\ users' = users
           ELSE /\ result'.detail = "ok"
                /\ users' = [users EXCEPT ![u].is_active = FALSE]
      ]_vars

C14_Witness ==
    /\ Did("deactivate_user")
    /\ ~users[result.target].is_active
    /\ users[result.target].otp_code # None
    /\ users[result.target].otp_expires_at # NoTime
    /\ users[result.target].approved_by # NoId

(* C15: make_user_admin fails if the target is inactive or already holds
   the admin role; otherwise it adds admin to the roles, keeps every role
   the account already had and leaves no role listed twice.  No inactive
   account gains the admin role in any step. *)
C15_GrantAdminAddsOneRole ==
    [][/\ result'.op = "make_user_admin" /\ result'.args[2] \in DOMAIN users
          => LET u == result'.args[2] IN
             IF ~users[u].is_active
             THEN /\ result'.detail = "Cannot grant admin role to inactive user"
                  /\ users' = users
             ELSE IF is_admin(users[u])
             THEN result'.detail = "User is already an admin" /\ users' = users
             ELSE /\ result'.detail = "ok"
                  /\ Range(users'[u].roles) = Range(users[u].roles) \cup {"admin"}
                  /\ Len(users'[u].roles) = Cardinality(Range(users'[u].roles))
                  /\ \A v \in DOMAIN users \ {u} : users'[v] = users[v]
                  /\ DOMAIN users' = DOMAIN users
       /\ \A u \in Kept :
            (is_admin(users'[u]) /\ ~is_admin(users[u])) => users[u].is_active
       /\ \A u \in DOMAIN users' \ DOMAIN users : ~is_admin(users'[u])
      ]_vars

C15_Witness ==
    /\ Did("make_user_admin")
    /\ Range(users[result.target].roles) = {"user", "admin"}
    /\ users[result.target].roles[1] = "admin"
    /\ result.args[1] # result.target

(* C16: only approved listings accept reviews: create_review on a listing
   that is pending or rejected fails with "Cannot review agents that are
   not approved", whatever the rating and the text, and stores nothing; and
   in every state every stored review belongs to an approved listing. *)
C16_ReviewsOnlyOnApproved ==
    /\ [](\A r \in DOMAIN reviews :
            /\ reviews[r].agent_id \in DOMAIN agents
            /\ agents[reviews[r].agent_id].status = APPROVED)
    /\ [][(/\ result'.op = "create_review"
           /\ result'.args[2] \in DOMAIN agents
           /\ agents[result'.args[2]].status # APPROVED)
          => /\ result'.detail = "Cannot review agents that are not approved"
             /\ reviews' = reviews /\ ratings' = ratings
             /\ next_review_id' = next_review_id
             /\ next_rating_id' = next_rating_id
        ]_vars

C16_Witness ==
    /\ result.op = "create_review"
    /\ result.detail = "Cannot review agents that are not approved"
    /\ agents[result.target].status = REJECTED
    /\ invalid_rating(result.args[3])
    /\ text_too_short(result.args[4])

(* C17: whenever an account has both a review and a rating on a listing,
   the review's rating equals the rating. *)
C17_ReviewRatingInSync ==
    \A v \in DOMAIN reviews : \A r \in DOMAIN ratings :
        (reviews[v].agent_id = ratings[r].agent_id
            /\ reviews[v].user_id = ratings[r].user_id)
        => reviews[v].rating = ratings[r].rating

(* C18: in every state, requests between their existence check and their
   commit included, there is at most one rating and at most one review per
   listing and account, each with a value in 1..5. *)
C18_OneRowPerPair ==
    /\ \A r \in DOMAIN ratings :
         /\ ratings[r].rating \in MIN_RATING..MAX_RATING
         /\ OfPair(ratings, ratings[r].agent_id, ratings[r].user_id) = {r}
    /\ \A v \in DOMAIN reviews :
         /\ reviews[v].rating \in MIN_RATING..MAX_RATING
         /\ OfPair(reviews, reviews[v].agent_id, reviews[v].user_id) = {v}

(* The accounts that have rated a listing, and the sum of their values. *)
Raters(table, agent_id) == {table[r].user_id : r \in OfAgent(table, agent_id)}

ValueOf(table, agent_id, user_id) ==
    table[CHOOSE r \in OfPair(table, agent_id, user_id) : TRUE].rating

SumOfRaters(table, agent_id) ==
    LET held(k) == {u \in Raters(table, agent_id) :
                       ValueOf(table, agent_id, u) = k}
    IN  1 * Cardinality(held(1)) + 2 * Cardinality(held(2))
        + 3 * Cardinality(held(3)) + 4 * Cardinality(held(4))
        + 5 * Cardinality(held(5))

(* hundredths is a nearest multiple of 0.01 to total / count. *)
NearestHundredth(hundredths, total, count) ==
    LET d == 100 * total - hundredths * count
    IN  2 * (IF d < 0 THEN 0 - d ELSE d) <= count

MeanAndCountOf(stats, table, agent_id) ==
    /\ stats.rating_count = Cardinality(Raters(table, agent_id))
    /\ IF Raters(table, agent_id) = {}
       THEN stats.average_rating = 0
       ELSE NearestHundredth(stats.average_rating,
                             SumOfRaters(table, agent_id),
                             Cardinality(Raters(table, agent_id)))

(* C19: a successful rate_agent or create_review sets the caller's rating
   of the listing to the submitted value and leaves every other rating as
   it was, so each rater's row holds the value of that rater's latest call;
   the mean rate_agent returns, and the mean get_agent_rating_stats
   returns, is the arithmetic mean of those values over the distinct
   raters, rounded to two decimals, and the count is the number of distinct
   raters. *)
C19_MeanOfLatestValues ==
    [][/\ (result'.op \in {"rate_agent", "create_review"}
              /\ result'.detail = "ok")
          => LET u == result'.args[1]
                 a == result'.args[2]
             IN  /\ OfPair(ratings', a, u) # {}
                 /\ \A r \in OfPair(ratings', a, u) :
                      ratings'[r].rating = result'.args[3]
                 /\ \A r \in DOMAIN ratings \ OfPair(ratings, a, u) :
                      r \in DOMAIN ratings' /\ ratings'[r] = ratings[r]
                 /\ Raters(ratings', a) = Raters(ratings, a) \cup {u}
       /\ (result'.op \in {"rate_agent", "get_agent_rating_stats"}
              /\ result'.detail = "ok")
          => MeanAndCountOf(result'.stats, ratings', result'.args[2])
      ]_vars

C19_Witness ==
    /\ Did("rate_agent")
    /\ result.stats.rating_count = 3
    /\ result.stats.average_rating \in {133, 167}
    /\ Cardinality(DOMAIN ratings) = 3

DistributionTotal(stats) ==
    stats.rating_distribution[1] + stats.rating_distribution[2]
    + stats.rating_distribution[3] + stats.rating_distribution[4]
    + stats.rating_distribution[5]

(* C20: get_agent_rating_stats is a pure read: it changes no stored state;
   a second call on the same listing with no write in between returns the
   same statistics; the per-star counts over 1..5 sum to the rating count;
   and for a listing without ratings the mean and all counts are 0. *)
C20_StatsIsPureRead ==
    [][result'.op = "get_agent_rating_stats"
        => /\ UNCHANGED <<users, next_user_id, agents, next_agent_id, spent, now>>
           /\ UNCHANGED engagement
           /\ result'.detail = "ok"
              => /\ DOMAIN result'.stats.rating_distribution
                      = MIN_RATING..MAX_RATING
                 /\ DistributionTotal(result'.stats) = result'.stats.rating_count
                 /\ OfAgent(ratings, result'.args[2]) = {}
                      => /\ result'.stats.average_rating = 0
                         /\ result'.stats.rating_count = 0
                         /\ \A i \in MIN_RATING..MAX_RATING :
                              result'.stats.rating_distribution[i] = 0
                 /\ (/\ result.op = "get_agent_rating_stats"
                     /\ result.detail = "ok"
                     /\ result.args[2] = result'.args[2])
                      => result'.stats = result.stats
      ]_vars

C20_Witness ==
    /\ Did("get_agent_rating_stats")
    /\ result.stats.rating_count = 3
    /\ result.stats.rating_distribution[1] >= 1
    /\ result.stats.rating_distribution[2] >= 1
    /\ result.stats.review_count = 1

(* C21: get_agent succeeds exactly when the listing exists and it is
   approved, or the caller is its author, or the caller is an admin; a
   listing that is not approved, fetched by a caller who is neither, is
   refused with "Not authorized to view this agent" and no view is
   recorded. *)
C21_ViewAuthorisation ==
    [][result'.op = "get_agent"
        => LET c == result'.args[1]
               a == result'.args[2]
           IN  IF a \notin DOMAIN agents
               THEN result'.detail = "Agent not found" /\ views' = views
               ELSE IF \/ agents[a].status = APPROVED
                       \/ agents[a].author_id = c
                       \/ is_admin(users[c])
               THEN result'.detail = "ok"
               ELSE /\ result'.detail = "Not authorized to view this agent"
                    /\ views' = views
      ]_vars

C21_Witness ==
    /\ result.op = "get_agent"
    /\ result.detail = "Not authorized to view this agent"
    /\ agents[result.target].status \in {PENDING, REJECTED}
    /\ agents[result.target].author_id # result.args[1]
    /\ ~is_admin(users[result.args[1]])
    /\ views = {}

(* C22: views are recorded only for approved listings and once per viewer
   and listing within the window: a successful get_agent adds a view, by
   the caller, on that listing, at the current time, exactly when the
   listing is approved and the caller has no view of it in the trailing
   hour, and nothing else adds or removes a view; so two views of one
   viewer on one listing are more than an hour apart and every stored view
   is of an approved listing. *)
C22_ViewsOncePerWindow ==
    /\ [](\A v \in views :
            /\ v.agent_id \in DOMAIN agents
            /\ agents[v.agent_id].status = APPROVED
            /\ \A w \in views :
                 (w.agent_id = v.agent_id /\ w.user_id = v.user_id
                     /\ w.viewed_at > v.viewed_at)
                 => w.viewed_at - v.viewed_at > VIEW_WINDOW_MINUTES)
    /\ [][IF result'.op = "get_agent" /\ result'.detail = "ok"
          THEN LET c == result'.args[1]
                   a == result'.args[2]
                   seen == \E v \in views :
                              /\ v.agent_id = a /\ v.user_id = c
                              /\ now - v.viewed_at <= VIEW_WINDOW_MINUTES
               IN  IF agents[a].status = APPROVED /\ ~seen
                   THEN views' = views \cup
                            {[agent_id |-> a, user_id |-> c, viewed_at |-> now]}
                   ELSE views' = views
          ELSE views' = views
        ]_vars

C22_Witness ==
    /\ Did("get_agent")
    /\ \E v \in views, w \in views :
         /\ v.agent_id = w.agent_id /\ v.user_id = w.user_id
         /\ w.viewed_at > v.viewed_at
         /\ w.viewed_at = now
    /\ \E v \in views : v.user_id # result.args[1]

(* C23: every successful mark_review_helpful raises the review's helpful
   counter by exactly one, also when requests overlap, and no step lowers
   the counter of a review that stays. *)
C23_HelpfulCountsEveryMark ==
    [][/\ (result'.op = "mark_review_helpful" /\ result'.detail = "ok")
          => reviews'[result'.target].is_helpful_count
                = reviews[result'.target].is_helpful_count + 1
       /\ \A v \in DOMAIN reviews \cap DOMAIN reviews' :
            reviews'[v].is_helpful_count >= reviews[v].is_helpful_count
      ]_vars

Decision(request) == IF request.approve THEN APPROVED ELSE REJECTED

(* C24: nothing between the pending test and the commit of
   approve_reject_agent keeps a second request out: every request that
   passed the test commits its own decision over whatever status is stored
   by then, so the status is that of the latest commit, and every such
   request then notifies the author and reports success. *)
C24_LaterDecisionOverwrites ==
    [][\A request \in inflight \ inflight' :
        IF ~request.committed
        THEN /\ agents'[request.agent_id].status = Decision(request)
             /\ agents'[request.agent_id].approved_by = request.current_admin
             /\ [request EXCEPT !.committed = TRUE] \in inflight'
        ELSE /\ result'.op = "approve_reject_agent"
             /\ result'.detail = "ok"
             /\ result'.args = <<request.current_admin, request.agent_id,
                                  request.approve>>
             /\ result'.mails = {users[agents[request.agent_id].author_id].email}
             /\ agents' = agents
      ]_vars

C24_Witness ==
    /\ Did("approve_reject_agent")
    /\ result.mails # {}
    /\ \E request \in inflight :
         /\ request.committed
         /\ request.agent_id = result.target
         /\ request.approve # result.args[3]
         /\ agents[result.target].status = Decision(request)
         /\ agents[result.target].status
              # (IF result.args[3] THEN APPROVED ELSE REJECTED)

(* C25: at most one verification succeeds per issued code, also when
   requests overlap: no verification succeeds on an account whose latest
   code has already been used up by an earlier success. *)
C25_OneLoginPerCode ==
    [][(result'.op = "verify_otp_and_login" /\ result'.detail = "ok")
        => result'.target \notin spent
      ]_vars

(* C26: in every state, requests that overlap included, at least one active
   account holds the admin role. *)
C26_SomeActiveAdmin ==
    \E u \in DOMAIN users : users[u].is_active /\ is_admin(users[u])

(* C27: every successful initiate_login replaces the stored code and
   expiry, so an account has one valid code at most: right after a login
   that issued a different code, the earlier code no longer verifies but is
   answered "Invalid OTP code", although its own expiry may not have
   passed; and a verification succeeds only with the code on file. *)
C27_NewCodeReplacesOld ==
    [][/\ (result'.op = "initiate_login" /\ result'.detail = "ok")
          => LET u == result'.target IN
             /\ users'[u].otp_code \in Codes
             /\ users'[u].otp_expires_at = now + OTP_EXPIRE_MINUTES
             /\ \A c \in Codes \ {users'[u].otp_code} :
                  check_otp(users'[u], c) = "Invalid OTP code"
       /\ (result'.op = "verify_otp_and_login" /\ result'.target \in DOMAIN users)
          => LET u == result'.target IN
             /\ result'.detail = "ok" => result'.args[2] = users[u].otp_code
             /\ (/\ users[u].otp_code \notin {None, result'.args[2]}
                 /\ now <= users[u].otp_expires_at)
                => (result'.detail = "Invalid OTP code" /\ users' = users)
      ]_vars

C27_Witness ==
    /\ result.op = "verify_otp_and_login"
    /\ result.detail = "Invalid OTP code"
    /\ users[result.target].otp_code \notin {None, result.args[2]}
    /\ users[result.target].otp_expires_at = now + OTP_EXPIRE_MINUTES
    /\ now > 0

(* C28: every review has a matching rating: for each listing and account
   with a stored review there is a stored rating, so a listing never has
   more reviews than ratings; delete_review removes the caller's review of
   the listing and nothing else, leaving the ratings, and with them the
   listing's mean and rating count, as they were; and no step removes a
   rating. *)
C28_ReviewHasRating ==
    /\ [](/\ \A v \in DOMAIN reviews :
               OfPair(ratings, reviews[v].agent_id, reviews[v].user_id) # {}
          /\ \A a \in DOMAIN agents :
               Cardinality(OfAgent(reviews, a)) <= Cardinality(OfAgent(ratings, a)))
    /\ [][/\ DOMAIN ratings \subseteq DOMAIN ratings'
          /\ (result'.op = "delete_review" /\ result'.detail = "ok")
             => /\ ratings' = ratings
                /\ result'.target \in DOMAIN reviews
                /\ reviews[result'.target].user_id = result'.args[1]
                /\ reviews[result'.target].agent_id = result'.args[2]
                /\ reviews' = [v \in DOMAIN reviews \ {result'.target}
                                 |-> reviews[v]]
                /\ average_rating(ratings', result'.args[2])
                     = average_rating(ratings, result'.args[2])
          /\ (result'.op = "delete_review" /\ result'.detail # "ok")
             => /\ result'.detail = "Review not found"
                /\ OfPair(reviews, result'.args[2], result'.args[1]) = {}
                /\ reviews' = reviews /\ ratings' = ratings
        ]_vars

C28_Witness ==
    /\ Did("delete_review")
    /\ OfPair(ratings, result.args[2], result.args[1]) # {}
    /\ OfPair(reviews, result.args[2], result.args[1]) = {}
    /\ Cardinality(DOMAIN ratings) > 1

(* C29: references never dangle: the author and the approver of every
   listing, the approver of every account, and the account of every
   rating, review, view, click and session exist; and reject_user on an
   account that a stored row still refers to does not remove it. *)
C29_NoDanglingReference ==
    /\ [](/\ \A a \in DOMAIN agents :
               /\ agents[a].author_id \in DOMAIN users
               /\ agents[a].approved_by \in DOMAIN users \cup {NoId}
          /\ \A u \in DOMAIN users :
               users[u].approved_by \in DOMAIN users \cup {NoId}
          /\ \A r \in DOMAIN ratings : ratings[r].user_id \in DOMAIN users
          /\ \A v \in DOMAIN reviews : reviews[v].user_id \in DOMAIN users
          /\ \A v \in views : v.user_id \in DOMAIN users
          /\ \A i \in DOMAIN clicks : clicks[i].user_id \in DOMAIN users
          /\ \A i \in DOMAIN sessions : sessions[i].user_id \in DOMAIN users)
    /\ [][\A u \in DOMAIN users :
            (result'.op = "reject_user" /\ result'.args[2] = u
                /\ ReferencedUser(u))
            => (result'.detail # "ok" /\ users' = users)
        ]_vars

C29_Witness ==
    /\ result.op = "reject_user"
    /\ result.detail = "IntegrityError"
    /\ result.target \in DOMAIN users
    /\ ~users[result.target].is_active
    /\ users[result.target].approved_by # NoId
    /\ \E a \in DOMAIN agents : agents[a].author_id = result.target

(* The listings the last request handed to its caller. *)
Obtained ==
    result.listed
    \cup (IF Did("get_agent") THEN {result.target} ELSE {})

(* C30: a caller who is neither an admin nor the author of a listing never
   obtains it from a read while it is pending or rejected: not from
   get_agent, not from get_agents, not from get_user_agents. *)
C30_UndecidedListingsStayPrivate ==
    \A a \in Obtained :
        agents[a].status # APPROVED
        => \/ agents[a].author_id = result.args[1]
           \/ is_admin(users[result.args[1]])

====
